---- MODULE Spec2Model ----
(***************************************************************************)
(* Model of the now-playing widget's polling engine                        *)
(* (components/SpotifyNowPlaying.jsx): the module-level request            *)
(* deduplication map and snapshot cache shared by every mounted component  *)
(* instance, and each instance's fetchData / retry / poll scheduling.      *)
(*                                                                         *)
(* JavaScript runs one task at a time.  Every action below is one task:    *)
(* the synchronous run of a handler up to its next await.  Continuations   *)
(* of an await on a settled promise run in the microtask phase, in the     *)
(* order in which the awaits were issued, before any timer or network      *)
(* event; the queue `waiters` of a settled request models that phase.      *)
(*                                                                         *)
(* A React state setter called by a handler only queues the new value.     *)
(* React renders the component and commits the result in a later task, and *)
(* runs the passive effects of that commit (useEffect) in a task after     *)
(* it; timers and network callbacks may run in between.                    *)
(* A handler is a closure of the render that created it: it keeps the      *)
(* apiUrl of that render.                                                  *)
(***************************************************************************)
EXTENDS Integers, Sequences, FiniteSets, TLC

VARIABLES
    now,              \* Date.now(), in ms
    globalCache,      \* Map: <<url, isPlaying>> -> {data, timestamp}
    pendingRequests,  \* Map: url (+ the constant options) -> request promise
    requests,         \* the fetch() calls started so far and their Response
    nreq,             \* number of fetch() calls started
    waiters,          \* per request: callers suspended in `await deduplicatedFetch`
    mounted,          \* per instance: "new", "mounted", "unmounted"
    apiUrl,           \* per instance: the apiUrl prop of its latest render
    track,            \* useState(null), as of the latest render
    loading,          \* useState(true), as of the latest render
    error,            \* useState(null), as of the latest render
    retryCount,       \* useState(0), as of the latest render
    queued,           \* per instance: the state after the setters called since
    effects,          \* per instance: the effects of the latest commit still to run
    retryCountRef,    \* useRef(0)
    isPlayingRef,     \* useRef(false)
    timers,           \* per instance: the pending setTimeout timers
    lastWrite,        \* history: per url, the latest setCachedData
    served,           \* history: the latest read answered from the cache
    hpc,              \* per handler invocation: where it is suspended
    tokenRetryCount,  \* retryCount of the running getAccessToken call
    playRetryCount,   \* retryCount of the running getNowPlaying call
    calls,            \* history: the upstream calls of the invocation
    thrown,           \* the error caught by the handler
    res,              \* the response sent by the handler
    req,              \* the request of the invocation
    env               \* process.env as the invocation finds it

\* the page: the widgets and their module state
widgetVars == <<now, globalCache, pendingRequests, requests, nreq, waiters, mounted,
                apiUrl, track, loading, error, retryCount, queued, effects,
                retryCountRef, isPlayingRef, timers, lastWrite, served>>

\* the serverless endpoint (api/spotify/now-playing)
epVars == <<hpc, tokenRetryCount, playRetryCount, calls, thrown, res, req, env>>

vars == <<widgetVars, epVars>>

----------------------------------------------------------------------------
(* Bounds of the model *)

NInst == 2              \* component instances on the page
MaxRequests == 3        \* fetch() calls started on a page of NInst widgets
MaxNow == 10000         \* horizon of the clock on that page, ms
MaxRequestsSolo == 5    \* fetch() calls started on a page with one widget
MaxNowSolo == 40000     \* horizon of the clock on that page, ms
TickMs == 1000          \* granularity of the clock, ms
MaxWaiters == 3         \* callers suspended on one request
MaxLatencyMs == 1000    \* the network answers, and a body is read, within this
MaxLateMs == 1000       \* a due timer fires within this
MaxRequestsSlow == 4    \* fetch() calls started on a page with a slow network
MaxNowSlow == 38000     \* horizon of the clock on that page, ms
MaxLatencySlowMs == 30000   \* the slow network answers within this

Inst == 1..NInst        \* the instances that use the default apiUrl
OtherInst == NInst + 1  \* an instance that is given an apiUrl of its own
Widgets == Inst \cup {OtherInst}
Urls == {"api", "other"}    \* the values of the apiUrl prop
ReqIds == 1..(IF MaxRequests > MaxRequestsSolo THEN MaxRequests ELSE MaxRequestsSolo)

(* Program constants *)

CACHE_TTL_PLAYING == 5000
CACHE_TTL_PAUSED == 60000
baseDelay == 1000
maxDelay == 30000
MaxRetries == 3
POLL_ERROR == 30000
POLL_PLAYING == 5000
POLL_PAUSED == 60000

Min(a, b) == IF a < b THEN a ELSE b

RECURSIVE Pow2(_)
Pow2(n) == IF n = 0 THEN 1 ELSE 2 * Pow2(n - 1)

----------------------------------------------------------------------------
(* Values *)

\* A parsed response body.  `req` is the identity of the object: every
\* successful response.json() builds a new object, and a Response body can be
\* read once, so there is one object per request.
NoSnap == [req |-> 0, is_playing |-> FALSE]
Snap(n, p) == [req |-> n, is_playing |-> p]

NoEntry == [data |-> NoSnap, timestamp |-> -1]

NoError == [text |-> "null", arg |-> ""]

\* How a fetch() of the API URL may settle: rejected (connection failure), or
\* resolved with a Response of some HTTP status; the is_playing of a 200 body;
\* the Retry-After header of a 429 ("": absent).
Outcome(rejected, status, playing, retryAfter) ==
    [rejected |-> rejected, status |-> status, is_playing |-> playing,
     retryAfter |-> retryAfter]
Rejected == Outcome(TRUE, 200, FALSE, "")
OkOutcomes == {Outcome(FALSE, 200, p, "") : p \in BOOLEAN}
AllOutcomes ==
    OkOutcomes \cup {Rejected}
               \cup {Outcome(FALSE, st, FALSE, "") : st \in {401, 500, 503}}
               \cup {Outcome(FALSE, 429, FALSE, ra) : ra \in {"", "2"}}
PageOutcomes == OkOutcomes \cup {Outcome(FALSE, 500, FALSE, "")}

\* A fetch() call: its promise ("pending", then "settled"), the Response it
\* settles with, whether the Response body has been read, the instance whose
\* response.json() is in progress, since when the network or the body read is
\* awaited, and (history) whether a caller awaiting it ended in fetchData's
\* catch block.  "done": nothing refers to it any more.
NoRequest == [st |-> "unused", url |-> "", since |-> 0, rejected |-> FALSE,
              status |-> 200, is_playing |-> FALSE, retryAfter |-> "",
              bodyUsed |-> FALSE, reader |-> 0, threw |-> FALSE]
DoneRequest == [NoRequest EXCEPT !.st = "done"]

\* Jitter Math.random() * 1000 of getRetryDelay, as whole ms
Jitter == {0, 999}
NoJitter == {0}

NoServed == [inst |-> 0, data |-> NoSnap, latest |-> NoSnap, latestFresh |-> FALSE]

----------------------------------------------------------------------------
(* Pure helpers of the component *)

\* getRetryDelay without the cap
getRetryDelayUncapped(attempt, jitter) ==
    baseDelay * Pow2(attempt) + jitter

getRetryDelay(attempt, jitter) ==
    Min(baseDelay * Pow2(attempt), maxDelay) + jitter

\* getPollingInterval without the error interval
getPollingIntervalIgnoresError(isPlaying, hasError) ==
    IF isPlaying THEN POLL_PLAYING ELSE POLL_PAUSED

getPollingInterval(isPlaying, hasError) ==
    IF hasError THEN POLL_ERROR
    ELSE IF isPlaying THEN POLL_PLAYING ELSE POLL_PAUSED

\* a lookup that gives every entry the short TTL
TTLAlwaysShort(isPlaying) == CACHE_TTL_PLAYING

TTL(isPlaying) == IF isPlaying THEN CACHE_TTL_PLAYING ELSE CACHE_TTL_PAUSED

\* getCachedData's expiry test
Expired(entry, isPlaying, t) == t - entry.timestamp > TTL(isPlaying)

\* getCachedData(url, isPlaying): the data returned (NoSnap for null) ...
getCachedData(cache, url, isPlaying, t) ==
    LET cached == cache[<<url, isPlaying>>] IN
    IF cached = NoEntry THEN NoSnap
    ELSE IF Expired(cached, isPlaying, t) THEN NoSnap
    ELSE cached.data

\* a lookup that deletes whatever entry it finds
CacheAfterGetEvictsOnRead(cache, url, isPlaying, t) ==
    [cache EXCEPT ![<<url, isPlaying>>] = NoEntry]

\* ... and the cache it leaves behind (the expired entry is deleted)
CacheAfterGet(cache, url, isPlaying, t) ==
    LET cached == cache[<<url, isPlaying>>] IN
    IF cached # NoEntry /\ Expired(cached, isPlaying, t)
    THEN [cache EXCEPT ![<<url, isPlaying>>] = NoEntry]
    ELSE cache

\* a setCachedData that files the entry under the cache's other key
setCachedDataUnderOtherKey(cache, url, isPlaying, data, t) ==
    [cache EXCEPT ![<<url, ~isPlaying>>] = [data |-> data, timestamp |-> t]]

setCachedData(cache, url, isPlaying, data, t) ==
    [cache EXCEPT ![<<url, isPlaying>>] = [data |-> data, timestamp |-> t]]

\* `${response.status}`
StatusText(status) ==
    CASE status = 200 -> "200" [] status = 401 -> "401" [] status = 429 -> "429"
      [] status = 500 -> "500" [] status = 503 -> "503"

\* The Error thrown by fetchData for a response that is not ok
ErrorMessage(r) ==
    IF r.status = 401 THEN [text |-> "Spotify authentication failed", arg |-> ""]
    ELSE IF r.status = 500 THEN [text |-> "Spotify API temporarily unavailable", arg |-> ""]
    ELSE IF r.status = 429
         THEN [text |-> "Spotify rate limit exceeded - retry after",
               arg |-> IF r.retryAfter = "" THEN "60" ELSE r.retryAfter]
    ELSE [text |-> "Unable to connect to Spotify", arg |-> StatusText(r.status)]

\* fetch() rejected
NetworkError == [text |-> "Failed to fetch", arg |-> ""]
\* response.json() on a Response whose body was already read
BodyUsedError == [text |-> "body stream already read", arg |-> ""]

----------------------------------------------------------------------------
(* One component instance: its React state, refs and timers *)

\* the values of the four useState hooks
ReactState(t, l, e, rc) ==
    [track |-> t, loading |-> l, error |-> e, retryCount |-> rc]

\* ... as the latest render of instance i saw them
Rendered(i) == ReactState(track[i], loading[i], error[i], retryCount[i])

\* What a handler of instance i works on: the React state as the setters
\* called so far leave it, the refs and the timers
InstState(i) ==
    [track |-> queued[i].track, loading |-> queued[i].loading,
     error |-> queued[i].error, retryCount |-> queued[i].retryCount,
     retryCountRef |-> retryCountRef[i],
     isPlayingRef |-> isPlayingRef[i], timers |-> timers[i]]

InitialInstState ==
    [track |-> NoSnap, loading |-> TRUE, error |-> NoError,
     retryCount |-> 0, retryCountRef |-> 0, isPlayingRef |-> FALSE,
     timers |-> <<>>]

\* A timer: its kind ("poll" for intervalRef's, "retry" for timeoutRef's), the
\* time it is due, whether the instance's ref still holds its id, and the
\* apiUrl of the fetchData its callback calls.
Timer(kind, due, url) == [kind |-> kind, due |-> due, tracked |-> TRUE, url |-> url]

RECURSIVE SelectTimers(_, _, _)
\* the timers of ts, in order, without the tracked ones of `kind` when drop,
\* or with them untracked otherwise
SelectTimers(ts, kind, drop) ==
    IF ts = <<>> THEN <<>>
    ELSE LET t == Head(ts)
             rest == SelectTimers(Tail(ts), kind, drop) IN
         IF t.kind = kind /\ t.tracked
         THEN IF drop THEN rest ELSE <<[t EXCEPT !.tracked = FALSE]>> \o rest
         ELSE <<t>> \o rest

\* clearTimeout(ref.current) / clearInterval(ref.current)
clearTimer(ts, kind) == SelectTimers(ts, kind, TRUE)

\* ref.current = setTimeout(..., delay): the ref forgets the timer it held
setTimer(ts, kind, due, url) ==
    Append(SelectTimers(ts, kind, FALSE), Timer(kind, due, url))

RemoveAt(ts, k) == [j \in 1..(Len(ts) - 1) |-> IF j < k THEN ts[j] ELSE ts[j + 1]]

\* React state setters: they queue the value; no-ops once the component is
\* unmounted
setState(alive, s, t, e, rc) ==
    IF alive THEN [s EXCEPT !.track = t, !.error = e, !.retryCount = rc] ELSE s

setLoading(alive, s, l) == IF alive THEN [s EXCEPT !.loading = l] ELSE s

\* a scheduleNextPoll that arms the new timer without clearing the old one
scheduleNextPollKeepsOld(s, err, url) ==
    LET interval == getPollingInterval(s.isPlayingRef, err # NoError) IN
    [s EXCEPT !.timers = setTimer(s.timers, "poll", now + interval, url)]

\* scheduleNextPoll of a render with state `error` = err and prop url; s
\* holds the refs and the timers when it is called
scheduleNextPoll(s, err, url) ==
    LET interval == getPollingInterval(s.isPlayingRef, err # NoError) IN
    [s EXCEPT !.timers =
         setTimer(clearTimer(s.timers, "poll"), "poll", now + interval, url)]

\* The effects a commit leaves to run: the cleanup of the mount effect, the
\* mount effect (deps [apiUrl]) and the poll effect (deps [track, error,
\* loading, scheduleNextPoll]).  scheduleNextPoll changes identity with
\* error and with fetchData, and fetchData changes identity with apiUrl and
\* with retryCount.
NoEffects == {}
MountEffects == {"mount", "poll"}
UnmountEffects == {"cleanup"}
ApiUrlEffects == {"cleanup", "mount", "poll"}
RenderEffects(old, new) ==
    IF <<new.track, new.error, new.loading, new.retryCount>>
           # <<old.track, old.error, old.loading, old.retryCount>>
    THEN {"poll"}
    ELSE NoEffects

\* cleanup of the mount effect: both refs' timers are cleared
cleanup(ts) == clearTimer(clearTimer(ts, "poll"), "retry")

\* the instance's variables after a handler that leaves it in state s: the
\* setters' values wait for the next render
Commit(i, s) ==
    /\ queued' = [queued EXCEPT ![i] =
                      ReactState(s.track, s.loading, s.error, s.retryCount)]
    /\ retryCountRef' = [retryCountRef EXCEPT ![i] = s.retryCountRef]
    /\ isPlayingRef' = [isPlayingRef EXCEPT ![i] = s.isPlayingRef]
    /\ timers' = [timers EXCEPT ![i] = s.timers]

\* the state of the latest render
rendered == <<apiUrl, track, loading, error, retryCount>>

instVars == <<rendered, queued, effects, retryCountRef, isPlayingRef, timers>>

----------------------------------------------------------------------------
(* deduplicatedFetch and fetchData *)

\* The microtask phase: awaiting callers of a settled request are resumed
\* before anything else runs.
Busy == \E n \in ReqIds : requests[n].st = "settled" /\ waiters[n] # <<>>

\* a deduplicatedFetch that looks for a pending request under any key
deduplicatedFetchAnyKey(i, url, maxReq) ==
    IF \E u \in Urls : pendingRequests[u] # 0
    THEN LET n == pendingRequests[CHOOSE u \in Urls : pendingRequests[u] # 0] IN
         /\ Len(waiters[n]) < MaxWaiters
         /\ waiters' = [waiters EXCEPT ![n] = Append(@, i)]
         /\ UNCHANGED <<pendingRequests, requests, nreq>>
    ELSE LET n == nreq + 1 IN
         /\ nreq < maxReq
         /\ nreq' = n
         /\ requests' = [requests EXCEPT ![n] =
                [NoRequest EXCEPT !.st = "pending", !.url = url, !.since = now]]
         /\ pendingRequests' = [pendingRequests EXCEPT ![url] = n]
         /\ waiters' = [waiters EXCEPT ![n] = <<i>>]

\* (mutant) deduplicatedFetch without the pendingRequests.has() test
deduplicatedFetchAlwaysFetches(i, url, maxReq) ==
    LET n == nreq + 1 IN
    /\ nreq < maxReq
    /\ nreq' = n
    /\ requests' = [requests EXCEPT ![n] =
           [NoRequest EXCEPT !.st = "pending", !.url = url, !.since = now]]
    /\ pendingRequests' = [pendingRequests EXCEPT ![url] = n]
    /\ waiters' = [waiters EXCEPT ![n] = <<i>>]

\* deduplicatedFetch(url, options), called by instance i, up to its return;
\* maxReq bounds the fetch() calls of the behaviour
deduplicatedFetch(i, url, maxReq) ==
    IF pendingRequests[url] # 0
    THEN \* return pendingRequests.get(cacheKey)
         LET n == pendingRequests[url] IN
         /\ Len(waiters[n]) < MaxWaiters
         /\ waiters' = [waiters EXCEPT ![n] = Append(@, i)]
         /\ UNCHANGED <<pendingRequests, requests, nreq>>
    ELSE \* fetch(url, options).finally(...); pendingRequests.set(cacheKey, ...)
         LET n == nreq + 1 IN
         /\ nreq < maxReq
         /\ nreq' = n
         /\ requests' = [requests EXCEPT ![n] =
                [NoRequest EXCEPT !.st = "pending", !.url = url, !.since = now]]
         /\ pendingRequests' = [pendingRequests EXCEPT ![url] = n]
         /\ waiters' = [waiters EXCEPT ![n] = <<i>>]

\* history of a read answered from the cache
Served(i, url, data) ==
    LET w == lastWrite[url] IN
    [inst |-> i, data |-> data, latest |-> w.data,
     latestFresh |-> w # NoEntry /\ ~Expired(w, w.data.is_playing, now)]

\* a fetchData that answers a retry from the cache as well
fetchDataIgnoresIsRetry(i, url, alive, isRetry, s, maxReq) ==
    LET cachedData == getCachedData(globalCache, url, s.isPlayingRef, now) IN
    /\ globalCache' = CacheAfterGet(globalCache, url, s.isPlayingRef, now)
    /\ IF cachedData # NoSnap
       THEN /\ Commit(i,
                  setLoading(alive,
                      setState(alive, [s EXCEPT !.retryCountRef = 0],
                               cachedData, NoError, 0),
                      FALSE))
            /\ served' = Served(i, url, cachedData)
            /\ UNCHANGED <<pendingRequests, requests, nreq, waiters>>
       ELSE /\ deduplicatedFetch(i, url, maxReq)
            /\ Commit(i, s)
            /\ UNCHANGED served

\* fetchData(isRetry) of a render with prop url, up to its first await or
\* its return; s is the
\* instance's state when it is called
fetchData(i, url, alive, isRetry, s, maxReq) ==
    LET cachedData == getCachedData(globalCache, url, s.isPlayingRef, now) IN
    /\ globalCache' = CacheAfterGet(globalCache, url, s.isPlayingRef, now)
    /\ IF cachedData # NoSnap /\ ~isRetry
       THEN /\ Commit(i,
                  setLoading(alive,
                      setState(alive, [s EXCEPT !.retryCountRef = 0],
                               cachedData, NoError, 0),
                      FALSE))
            /\ served' = Served(i, url, cachedData)
            /\ UNCHANGED <<pendingRequests, requests, nreq, waiters>>
       ELSE /\ deduplicatedFetch(i, url, maxReq)
            /\ Commit(i, s)
            /\ UNCHANGED served

\* the catch and finally blocks of fetchData
catch(alive, s, url, err, jitter) ==
    LET s1 == setState(alive, s, s.track, err, s.retryCount)
        s2 == IF s1.retryCountRef < MaxRetries
              THEN [s1 EXCEPT !.timers =
                        setTimer(@, "retry",
                                 now + getRetryDelay(s1.retryCountRef, jitter),
                                 url)]
              ELSE s1 IN
    setLoading(alive, s2, FALSE)

----------------------------------------------------------------------------
(* The serverless endpoint api/spotify/now-playing: one invocation of the  *)
(* handler refreshes the access token, reads the playback state and sends  *)
(* one response.  Each action is the run of the handler from one answer of *)
(* Spotify (or one elapsed backoff) to its next await.                     *)

NHandlers == 2      \* invocations of the handler running at the same time
Handlers == 1..NHandlers

maxRetries == 2
backoffBase == 1000

Methods == {"GET", "OPTIONS", "POST"}

\* A JSON number that may be null or missing
Num(v) == [present |-> TRUE, value |-> v]
Null == [present |-> FALSE, value |-> 0]
\* `x || 0`
orZero(n) == IF n.present THEN n.value ELSE 0

\* A JSON array of names that may be missing
Names(list) == [present |-> TRUE, list |-> list]
\* the artist objects of an upstream item
Artists(names) ==
    [present |-> TRUE, list |-> [i \in DOMAIN names |-> [name |-> names[i]]]]
\* artists.map((artist) => artist.name)
artistNames(artists) ==
    Names([i \in DOMAIN artists.list |-> artists.list[i].name])
NoNames == [present |-> FALSE, list |-> <<>>]

\* The album object of an upstream item, which may be missing
Album(name) == [present |-> TRUE, name |-> name]
NoAlbum == [present |-> FALSE, name |-> ""]

\* The item of the player's body: its type, its name ("": none), the names
\* of its artists, its duration and its album.  (The images of the album and
\* the external_urls are handled like the name and are left out.)
UpItem(type, name, artists, duration, album) ==
    [type |-> type, name |-> name, artists |-> artists, duration_ms |-> duration,
     album |-> album]

\* item: null, as for an ad
NoUpItem == UpItem("", "", NoNames, Null, NoAlbum)
SongA ==
    UpItem("track", "Song A", Artists(<<"Artist A", "Artist B">>), Num(200000),
           Album("Album A"))
\* a local file: a track with artists and without an album
LocalTrack == UpItem("track", "Song L", Artists(<<"Artist A">>), Num(1000), NoAlbum)
BareTrack == UpItem("track", "", NoNames, Null, NoAlbum)
Episode1 == UpItem("episode", "Episode 1", NoNames, Num(1800000), NoAlbum)
OtherItem ==
    UpItem("unknown", "Item 1", Artists(<<"Artist A">>), Num(1000), Album("Album A"))

\* The JSON body of a 200 of the player
PlayerBody(playing, progress, item) ==
    [is_playing |-> playing, progress_ms |-> progress, item |-> item]

NoBody == PlayerBody(FALSE, Null, NoUpItem)

\* The JSON body of a 200 of the token service; access_token "": the body
\* holds no token
TokenBody(access_token) == [access_token |-> access_token]

PlayerBodies ==
    {PlayerBody(FALSE, Num(1000), SongA), PlayerBody(FALSE, Null, NoUpItem)}
      \cup {PlayerBody(TRUE, p, SongA) : p \in {Null, Num(0), Num(1000)}}
      \cup {PlayerBody(TRUE, Num(1000), it) :
                it \in {LocalTrack, BareTrack, Episode1, OtherItem, NoUpItem}}

\* An answer of Spotify to one fetch(): rejected (connection failure), or a
\* Response with a status, the Retry-After header ("": absent) and, for a
\* 200 of the player, its body.
Answer(rejected, status, body, retryAfter) ==
    [rejected |-> rejected, status |-> status, body |-> body,
     retryAfter |-> retryAfter]

Unanswered == Answer(FALSE, 0, NoBody, "")

TokenAnswers ==
    {Answer(TRUE, 0, NoBody, ""), Answer(FALSE, 200, TokenBody("BQD"), "")}
      \cup {Answer(FALSE, st, NoBody, "") : st \in {400, 401, 404, 429, 500, 503}}

\* the answers to the handlers that test the token: a 200 may hold none
TestedTokenAnswers == TokenAnswers \cup {Answer(FALSE, 200, TokenBody(""), "")}

PlaybackAnswers ==
    {Answer(TRUE, 0, NoBody, "")}
      \cup {Answer(FALSE, 200, b, "") : b \in PlayerBodies}
      \cup {Answer(FALSE, st, NoBody, "") : st \in {204, 304, 400, 401, 403, 404, 500, 503}}
      \cup {Answer(FALSE, 429, NoBody, ra) : ra \in {"", "2"}}

ok(r) == r.status >= 200 /\ r.status <= 299

\* An upstream call of an invocation, and its answer once it has one
Call(to, answered, r) == [to |-> to, answered |-> answered, answer |-> r]

\* Where an invocation is suspended; `delay` is the backoff it sleeps, in ms
Pc(at, delay) == [at |-> at, delay |-> delay]

Thrown(text, arg) == [text |-> text, arg |-> arg]
NoThrown == Thrown("", "")

\* fetch() rejects with TypeError("fetch failed")
FetchFailed == Thrown("fetch failed", "")
ConnectError == Thrown("Unable to connect to Spotify - network error", "")

\* The response of the handler: its status, the headers set for it (the
\* CORS and security headers, the same on every response, are left out)
\* and its JSON body, a record of exactly the fields sent (<<>>: no body).
Response(status, headers, body) ==
    [status |-> status, headers |-> headers, body |-> body]

NoResponse == Response(0, {}, <<>>)

\* the request of an invocation: its method and its Origin header
Request(method, origin) == [method |-> method, origin |-> origin]
NotInvoked == Request("", "")

\* process.env: NODE_ENV and VERCEL_ENV ("": not set), the three credentials
\* (strings, as their characters; <<>>: not set) and the ALLOWED_ORIGINS list
Env(nodeEnv, vercelEnv, clientId, clientSecret, refreshToken, allowed) ==
    [NODE_ENV |-> nodeEnv, VERCEL_ENV |-> vercelEnv,
     SPOTIFY_CLIENT_ID |-> clientId, SPOTIFY_CLIENT_SECRET |-> clientSecret,
     SPOTIFY_REFRESH_TOKEN |-> refreshToken, ALLOWED_ORIGINS |-> allowed]
NoEnv == Env("", "", <<>>, <<>>, <<>>, {})

\* the lengths validateEnvironment asks of the client id and secret, and at
\* least of the refresh token
CredentialLength == 32
MinRefreshTokenLength == 100

\* the values the credentials are configured with: not set, blank, too
\* short, and of the form Spotify issues
ClientIds == {<<>>, <<"i", "d">>, [k \in 1..CredentialLength |-> "a"]}
ClientSecrets == {<<" ">>, [k \in 1..CredentialLength |-> "b"]}
RefreshTokens == {<<"r", "t">>, [k \in 1..MinRefreshTokenLength |-> "r"]}

\* The item of a response
OutItem(name, artists, duration) ==
    [name |-> name, artists |-> artists, duration_ms |-> duration]

\* { is_playing: false }
NotPlaying == [is_playing |-> FALSE]
\* { is_playing: true, progress_ms, item }
Playing(progress, item) ==
    [is_playing |-> TRUE, progress_ms |-> progress, item |-> item]

\* res.setHeader(name, value) for each of `headers`
setHeaders(response, headers) == [response EXCEPT !.headers = @ \cup headers]

\* the headers the handler sets for every request
HandlerHeaders ==
    {<<"Access-Control-Allow-Origin", "*">>,
     <<"Access-Control-Allow-Methods", "GET, OPTIONS">>,
     <<"Access-Control-Allow-Headers", "Content-Type, Authorization">>,
     <<"X-Content-Type-Options", "nosniff">>,
     <<"X-Frame-Options", "DENY">>,
     <<"X-XSS-Protection", "1; mode=block">>}

CacheControl10 == <<"Cache-Control", "s-maxage=10, stale-while-revalidate">>

\* res.status(200).json(nowPlaying), after the Cache-Control header is set
Ok200(snapshot) == Response(200, {CacheControl10}, snapshot)
\* the handler's catch block
Failed500 ==
    Response(500, {}, [error |-> "Failed to fetch now playing", is_playing |-> FALSE])
\* the answers to a request that is not a GET
Preflight200 == Response(200, {}, <<>>)
NotAllowed405 == Response(405, {}, [error |-> "Method not allowed"])

backoffDelay(tries) == backoffBase * Pow2(tries)

\* getAccessToken: the Error thrown for a token Response that is not ok and
\* is not retried
tokenError(r) ==
    IF r.status = 400
    THEN Thrown("Invalid refresh token - please re-authorize your Spotify account", "")
    ELSE IF r.status = 401
    THEN Thrown("Invalid client credentials - check your Spotify app configuration", "")
    ELSE Thrown("Token refresh failed with status", ToString(r.status))

\* a getAccessToken that retries every Response that is not ok
tokenRetriesEveryFailure(r, tries) ==
    tries < maxRetries

\* getAccessToken: is a token Response that is not ok followed by a retry
tokenRetries(r, tries) ==
    /\ r.status # 400
    /\ r.status # 401
    /\ r.status >= 500
    /\ tries < maxRetries

\* getNowPlaying: is a player Response followed by a retry
playbackRetries(r, tries) ==
    /\ r.status # 204
    /\ ~(r.status >= 400 /\ r.status < 500)
    /\ r.status >= 500
    /\ tries < maxRetries

\* getNowPlaying: the Error thrown for a player Response (not 204, not ok,
\* not retried)
playbackError(r) ==
    IF r.status >= 400 /\ r.status < 500
    THEN IF r.status = 401
         THEN Thrown("Spotify access token expired - authentication issue", "")
         ELSE IF r.status = 403
         THEN Thrown("Insufficient Spotify permissions - check app scopes", "")
         ELSE IF r.status = 429
         THEN Thrown("Spotify rate limit exceeded - retry after",
                     IF r.retryAfter = "" THEN "1" ELSE r.retryAfter)
         ELSE Thrown("Spotify API client error:", ToString(r.status))
    ELSE IF r.status >= 500
    THEN Thrown("Spotify API temporarily unavailable", "")
    ELSE Thrown("Unexpected Spotify API error:", ToString(r.status))

\* a getNowPlaying that passes the progress and the item of a paused player on
nowPlayingKeepsPaused(data) ==
    IF ~data.is_playing
    THEN [is_playing |-> FALSE, progress_ms |-> data.progress_ms, item |-> data.item]
    ELSE IF data.item = NoUpItem \/ data.item.type # "track" THEN NotPlaying
    ELSE Playing(Num(orZero(data.progress_ms)),
                 OutItem(IF data.item.name = "" THEN "Unknown Track"
                         ELSE data.item.name,
                         IF data.item.artists.present
                         THEN artistNames(data.item.artists)
                         ELSE Names(<<"Unknown Artist">>),
                         Num(orZero(data.item.duration_ms))))

\* a getNowPlaying that reports the artists in reverse order
nowPlayingReversesArtists(data) ==
    IF ~data.is_playing \/ data.item = NoUpItem \/ data.item.type # "track"
    THEN NotPlaying
    ELSE LET names == IF data.item.artists.present
                      THEN artistNames(data.item.artists).list
                      ELSE <<"Unknown Artist">>
         IN Playing(Num(orZero(data.progress_ms)),
                    OutItem(IF data.item.name = "" THEN "Unknown Track"
                            ELSE data.item.name,
                            Names([i \in DOMAIN names |-> names[Len(names) + 1 - i]]),
                            Num(orZero(data.item.duration_ms))))

\* getNowPlaying: the snapshot built from a 200 body
nowPlaying(data) ==
    IF ~data.is_playing THEN NotPlaying
    ELSE IF data.item = NoUpItem THEN NotPlaying
    ELSE IF data.item.type = "track"
    THEN Playing(Num(orZero(data.progress_ms)),
                 OutItem(IF data.item.name = "" THEN "Unknown Track"
                         ELSE data.item.name,
                         IF data.item.artists.present
                         THEN artistNames(data.item.artists)
                         ELSE Names(<<"Unknown Artist">>),
                         Num(orZero(data.item.duration_ms))))
    ELSE NotPlaying

\* the catch blocks of getAccessToken and getNowPlaying
rethrow(err) == IF err = FetchFailed THEN ConnectError ELSE err

\* fetch(...) is called: the call joins the history, unanswered
issue(cs, to) == Append(cs, Call(to, FALSE, Unanswered))
\* the pending call, the last one of the history, is answered with r
answer(cs, r) == [cs EXCEPT ![Len(cs)] = Call(@.to, TRUE, r)]

\* The invocation ends: `err` reached the handler's catch block (NoThrown:
\* nothing was thrown) and `response` is sent, with the headers set before.
Finish(h, cs, err, response) ==
    /\ hpc' = [hpc EXCEPT ![h] = Pc("done", 0)]
    /\ calls' = [calls EXCEPT ![h] = cs]
    /\ thrown' = [thrown EXCEPT ![h] = err]
    /\ res' = [res EXCEPT ![h] = setHeaders(response, res[h].headers)]

\* The invocation goes on to its next await
Await(h, cs, pc) ==
    /\ hpc' = [hpc EXCEPT ![h] = pc]
    /\ calls' = [calls EXCEPT ![h] = cs]
    /\ UNCHANGED <<thrown, res>>

InitEndpoint ==
    /\ hpc = [h \in Handlers |-> Pc("idle", 0)]
    /\ tokenRetryCount = [h \in Handlers |-> 0]
    /\ playRetryCount = [h \in Handlers |-> 0]
    /\ calls = [h \in Handlers |-> <<>>]
    /\ thrown = [h \in Handlers |-> NoThrown]
    /\ res = [h \in Handlers |-> NoResponse]
    /\ req = [h \in Handlers |-> NotInvoked]
    /\ env = [h \in Handlers |-> NoEnv]

\* The handler up to its first fetch: the headers it sets for every
\* request, the answer to OPTIONS and the method test
Begin(h, method, headers) ==
    IF method = "OPTIONS"
    THEN Finish(h, calls[h], NoThrown, setHeaders(Preflight200, headers))
    ELSE IF method # "GET"
    THEN Finish(h, calls[h], NoThrown, setHeaders(NotAllowed405, headers))
    ELSE /\ hpc' = [hpc EXCEPT ![h] = Pc("token", 0)]
         /\ calls' = [calls EXCEPT ![h] = issue(@, "token")]
         /\ res' = [res EXCEPT ![h] = Response(0, headers, <<>>)]
         /\ UNCHANGED thrown

\* a handler that treats every method but OPTIONS as a GET
InvokeAnyMethod(h, method) ==
    /\ hpc[h].at = "idle"
    /\ req' = [req EXCEPT ![h] = Request(method, "")]
    /\ Begin(h, IF method = "OPTIONS" THEN "OPTIONS" ELSE "GET", HandlerHeaders)
    /\ UNCHANGED <<tokenRetryCount, playRetryCount, env, widgetVars>>

\* handler(req, res): up to the first await of getNowPlaying() ->
\* getAccessToken() -> fetch(TOKEN_ENDPOINT)
Invoke(h, method) ==
    /\ hpc[h].at = "idle"
    /\ req' = [req EXCEPT ![h] = Request(method, "")]
    /\ Begin(h, method, HandlerHeaders)
    /\ UNCHANGED <<tokenRetryCount, playRetryCount, env, widgetVars>>

\* a getNowPlaying that calls the player whatever the token service answered
TokenRespondsIgnoresStatus(h, r) ==
    /\ hpc[h].at = "token"
    /\ LET cs == answer(calls[h], r) IN
       IF r.rejected THEN Finish(h, cs, rethrow(rethrow(FetchFailed)), Failed500)
       ELSE Await(h, issue(cs, "playback"), Pc("playback", 0))
    /\ UNCHANGED <<tokenRetryCount, playRetryCount, req, env, widgetVars>>

\* a handler that lets the rejection of the token fetch escape
TokenRespondsUncaught(h, r) ==
    /\ hpc[h].at = "token"
    /\ LET cs == answer(calls[h], r) IN
       IF r.rejected THEN Finish(h, cs, FetchFailed, NoResponse)
       ELSE IF ~ok(r)
       THEN IF tokenRetries(r, tokenRetryCount[h])
            THEN Await(h, cs, Pc("tokenBackoff", backoffDelay(tokenRetryCount[h])))
            ELSE Finish(h, cs, rethrow(rethrow(tokenError(r))), Failed500)
       ELSE Await(h, issue(cs, "playback"), Pc("playback", 0))
    /\ UNCHANGED <<tokenRetryCount, playRetryCount, req, env, widgetVars>>

\* The token service answers: getAccessToken retries, throws, or returns the
\* token to getNowPlaying, which calls the player
TokenResponds(h, r) ==
    /\ hpc[h].at = "token"
    /\ LET cs == answer(calls[h], r) IN
       IF r.rejected THEN Finish(h, cs, rethrow(rethrow(FetchFailed)), Failed500)
       ELSE IF ~ok(r)
       THEN IF tokenRetries(r, tokenRetryCount[h])
            THEN Await(h, cs, Pc("tokenBackoff", backoffDelay(tokenRetryCount[h])))
            ELSE Finish(h, cs, rethrow(rethrow(tokenError(r))), Failed500)
       ELSE Await(h, issue(cs, "playback"), Pc("playback", 0))
    /\ UNCHANGED <<tokenRetryCount, playRetryCount, req, env, widgetVars>>

\* The backoff of getAccessToken has elapsed: getAccessToken(retryCount + 1)
TokenBackoffElapses(h) ==
    /\ hpc[h].at = "tokenBackoff"
    /\ tokenRetryCount' = [tokenRetryCount EXCEPT ![h] = @ + 1]
    /\ Await(h, issue(calls[h], "token"), Pc("token", 0))
    /\ UNCHANGED <<playRetryCount, req, env, widgetVars>>

\* The player answers: getNowPlaying returns a snapshot, retries or throws
PlaybackResponds(h, r) ==
    /\ hpc[h].at = "playback"
    /\ LET cs == answer(calls[h], r) IN
       IF r.rejected THEN Finish(h, cs, rethrow(FetchFailed), Failed500)
       ELSE IF r.status = 204 THEN Finish(h, cs, NoThrown, Ok200(NotPlaying))
       ELSE IF playbackRetries(r, playRetryCount[h])
       THEN Await(h, cs, Pc("playbackBackoff", backoffDelay(playRetryCount[h])))
       ELSE IF ~ok(r) THEN Finish(h, cs, rethrow(playbackError(r)), Failed500)
       ELSE Finish(h, cs, NoThrown, Ok200(nowPlaying(r.body)))
    /\ UNCHANGED <<tokenRetryCount, playRetryCount, req, env, widgetVars>>

\* The backoff of getNowPlaying has elapsed: getNowPlaying(retryCount + 1),
\* which starts with a getAccessToken() of its own
PlaybackBackoffElapses(h) ==
    /\ hpc[h].at = "playbackBackoff"
    /\ playRetryCount' = [playRetryCount EXCEPT ![h] = @ + 1]
    /\ tokenRetryCount' = [tokenRetryCount EXCEPT ![h] = 0]
    /\ Await(h, issue(calls[h], "token"), Pc("token", 0))
    /\ UNCHANGED <<req, env, widgetVars>>

(* The first version of the endpoint, api/spotify/now-playing.js, which is *)
(* still deployed next to the one above: no retries.                       *)

legacyTokenError(r) == Thrown("Token refresh failed:", ToString(r.status))
legacyPlaybackError(r) == Thrown("Spotify API error:", ToString(r.status))
\* the TypeError of data.item.name for a null item, of
\* data.item.artists.map for an item without artists and of
\* data.item.album.name for an item without an album
ItemTypeError(property, of) ==
    Thrown("Cannot read properties of " \o of, "(reading '" \o property \o "')")

\* getNowPlaying of now-playing.js, for a playing body: the first property
\* read that throws, in the order the object literal reads them
legacyItemError(data) ==
    IF data.item = NoUpItem THEN ItemTypeError("name", "null")
    ELSE IF ~data.item.artists.present THEN ItemTypeError("map", "undefined")
    ELSE IF ~data.item.album.present THEN ItemTypeError("name", "undefined")
    ELSE NoThrown


\* getNowPlaying of now-playing.js: statuses answered as "nothing playing"
legacyNotPlaying(r) == r.status = 204 \/ r.status > 400

\* the headers the handler of now-playing.js sets for every request
LegacyHeaders ==
    {<<"Access-Control-Allow-Origin", "*">>,
     <<"Access-Control-Allow-Methods", "GET, OPTIONS">>,
     <<"Access-Control-Allow-Headers", "Content-Type">>}

\* the handler's catch block of now-playing.js, for credentials that are set
LegacyFailed500(err, e) ==
    Response(500, {},
             [error |-> "Failed to fetch now playing",
              is_playing |-> FALSE,
              debug |-> [message |-> err,
                         has_client_id |-> e.SPOTIFY_CLIENT_ID # <<>>,
                         has_client_secret |-> e.SPOTIFY_CLIENT_SECRET # <<>>,
                         has_refresh_token |-> e.SPOTIFY_REFRESH_TOKEN # <<>>,
                         client_id_length |-> Len(e.SPOTIFY_CLIENT_ID),
                         client_secret_length |-> Len(e.SPOTIFY_CLIENT_SECRET),
                         refresh_token_length |-> Len(e.SPOTIFY_REFRESH_TOKEN)]])

\* handler(req, res) of now-playing.js up to its first fetch; the endpoint
\* is configured with credentials that are set, of any form
LegacyInvoke(h, method) ==
    /\ hpc[h].at = "idle"
    /\ req' = [req EXCEPT ![h] = Request(method, "")]
    /\ \E id \in ClientIds \ {<<>>}, secret \in ClientSecrets,
          token \in RefreshTokens :
           env' = [env EXCEPT ![h] = Env("production", "", id, secret, token, {})]
    /\ Begin(h, method, LegacyHeaders)
    /\ UNCHANGED <<tokenRetryCount, playRetryCount, widgetVars>>

LegacyTokenResponds(h, r) ==
    /\ hpc[h].at = "token"
    /\ LET cs == answer(calls[h], r) IN
       IF r.rejected THEN Finish(h, cs, FetchFailed, LegacyFailed500(FetchFailed, env[h]))
       ELSE IF ~ok(r)
       THEN Finish(h, cs, legacyTokenError(r),
                   LegacyFailed500(legacyTokenError(r), env[h]))
       ELSE Await(h, issue(cs, "playback"), Pc("playback", 0))
    /\ UNCHANGED <<tokenRetryCount, playRetryCount, req, env, widgetVars>>

LegacyPlaybackResponds(h, r) ==
    /\ hpc[h].at = "playback"
    /\ LET cs == answer(calls[h], r)
           data == r.body IN
       IF r.rejected THEN Finish(h, cs, FetchFailed, LegacyFailed500(FetchFailed, env[h]))
       ELSE IF legacyNotPlaying(r) THEN Finish(h, cs, NoThrown, Ok200(NotPlaying))
       ELSE IF ~ok(r)
       THEN Finish(h, cs, legacyPlaybackError(r),
                   LegacyFailed500(legacyPlaybackError(r), env[h]))
       ELSE IF ~data.is_playing THEN Finish(h, cs, NoThrown, Ok200(NotPlaying))
       ELSE IF legacyItemError(data) # NoThrown
       THEN Finish(h, cs, legacyItemError(data),
                   LegacyFailed500(legacyItemError(data), env[h]))
       ELSE Finish(h, cs, NoThrown,
                   Ok200(Playing(data.progress_ms,
                                 [name |-> data.item.name,
                                  artists |-> artistNames(data.item.artists),
                                  duration_ms |-> data.item.duration_ms,
                                  album |-> [name |-> data.item.album.name]])))
    /\ UNCHANGED <<tokenRetryCount, playRetryCount, req, env, widgetVars>>

(* api/spotify/now-playing-validated.js: withEnvValidation validates the   *)
(* environment and answers itself when it is not valid; the handler        *)
(* answers every other case, without retries.                              *)

NodeEnvs == {"production", "development"}
\* the values of VERCEL_ENV; "": not set
VercelEnvs == {"", "production"}

\* !value || value.trim() === ''
blank(value) == \A k \in DOMAIN value : value[k] \in {" ", "\t", "\n", "\r"}

\* /^[a-zA-Z0-9]{32}$/.test(value)
credentialFormat(value) ==
    /\ Len(value) = CredentialLength
    /\ \A k \in DOMAIN value :
           value[k] \in
               {"a", "b", "c", "d", "e", "f", "g", "h", "i", "j", "k", "l", "m",
                "n", "o", "p", "q", "r", "s", "t", "u", "v", "w", "x", "y", "z",
                "A", "B", "C", "D", "E", "F", "G", "H", "I", "J", "K", "L", "M",
                "N", "O", "P", "Q", "R", "S", "T", "U", "V", "W", "X", "Y", "Z",
                "0", "1", "2", "3", "4", "5", "6", "7", "8", "9"}

\* validateSpotifyEnvironment: the keys of the required variables that are
\* missing, in the order they are checked
missing(e) ==
    SelectSeq(<<"SPOTIFY_CLIENT_ID", "SPOTIFY_CLIENT_SECRET", "SPOTIFY_REFRESH_TOKEN">>,
              LAMBDA key : blank(e[key]))

\* The ConfigurationError of validateEnvironment: its message and the keys
\* of details.missing (<<>>: the details hold no list of missing variables)
ConfigurationError(message, keys) == [message |-> message, missing |-> keys]

\* validateEnvironment: the ConfigurationError it throws; one without a
\* message when it returns
validateEnvironment(e) ==
    IF missing(e) # <<>>
    THEN ConfigurationError("Missing required environment variables", missing(e))
    ELSE IF ~credentialFormat(e.SPOTIFY_CLIENT_ID)
    THEN ConfigurationError("Invalid SPOTIFY_CLIENT_ID format", <<>>)
    ELSE IF ~credentialFormat(e.SPOTIFY_CLIENT_SECRET)
    THEN ConfigurationError("Invalid SPOTIFY_CLIENT_SECRET format", <<>>)
    ELSE IF Len(e.SPOTIFY_REFRESH_TOKEN) < MinRefreshTokenLength
    THEN ConfigurationError("Invalid SPOTIFY_REFRESH_TOKEN format", <<>>)
    ELSE ConfigurationError("", <<>>)

\* new Date().toISOString() at the time of the answer
Timestamps == {"2025-01-01T00:00:00.000Z", "2025-01-01T00:00:01.000Z"}

\* withEnvValidation: its answer for an environment that is not valid.  (Of
\* each missing variable the details hold the key; its description and the
\* instructions are left out.)
EnvRejected500(e, err, timestamp) ==
    IF e.NODE_ENV # "production" /\ e.VERCEL_ENV # "production"
    THEN Response(500, {},
             [error |-> "Configuration Error",
              message |-> err.message,
              details |->
                  IF err.missing # <<>>
                  THEN [missing |-> err.missing,
                        hint |-> "Check the console for detailed setup instructions"]
                  ELSE [hint |-> "Check the console for detailed setup instructions"],
              timestamp |-> timestamp])
    ELSE Response(500, {},
             [error |-> "Server configuration error",
              message |-> "The server is not properly configured.",
              timestamp |-> timestamp])

CacheControl5 == <<"Cache-Control", "s-maxage=5, stale-while-revalidate">>
CacheControl60 == <<"Cache-Control", "s-maxage=60, stale-while-revalidate">>

\* parseInt of a Retry-After value
parseInt(text) == CASE text = "2" -> 2 [] text = "60" -> 60

ValidatedError(text) == Response(500, {}, [error |-> text, is_playing |-> FALSE])

\* the answer to a 400 or 401 of the token service
ValidatedAuthFailed(e) ==
    IF e.NODE_ENV # "production"
    THEN Response(500, {},
             [error |-> "Authentication failed",
              message |-> "Failed to refresh access token. The refresh token may be expired.",
              hint |-> "Run 'npm run spotify-auth' to generate a new refresh token",
              is_playing |-> FALSE])
    ELSE Response(500, {},
             [error |-> "Authentication failed",
              message |-> "Failed to refresh access token. The refresh token may be expired.",
              is_playing |-> FALSE])

\* the answer to a 429 of the player
ValidatedRateLimited(r) ==
    LET retryAfter == IF r.retryAfter = "" THEN "60" ELSE r.retryAfter IN
    Response(429, {<<"Retry-After", retryAfter>>},
             [error |-> "Rate limited", retryAfter |-> parseInt(retryAfter),
              is_playing |-> FALSE])

\* the answer to a 200 of the player.  (currently_playing_type, the album
\* and the id of the item are handled like the name and are left out.)
validatedNowPlaying(data) ==
    IF ~data.is_playing THEN Response(200, {CacheControl60}, NotPlaying)
    ELSE IF data.item = NoUpItem THEN Response(200, {CacheControl60}, NotPlaying)
    ELSE IF data.item.type # "track" THEN Response(200, {CacheControl60}, NotPlaying)
    ELSE Response(200, {CacheControl5},
             Playing(Num(orZero(data.progress_ms)),
                     [name |-> IF data.item.name = "" THEN "Unknown Track"
                               ELSE data.item.name,
                      artists |-> IF data.item.artists.present
                                  THEN artistNames(data.item.artists)
                                  ELSE Names(<<"Unknown Artist">>),
                      duration_ms |-> Num(orZero(data.item.duration_ms)),
                      type |-> data.item.type]))

\* The function now-playing-validated.js exports: withEnvValidation answers
\* for an environment that is not valid, and calls the handler for one that
\* is.  (The process serves its first request: nothing is cached yet.)
ValidatedInvoke(h, method, e, timestamp) ==
    /\ hpc[h].at = "idle"
    /\ req' = [req EXCEPT ![h] = Request(method, "")]
    /\ env' = [env EXCEPT ![h] = e]
    /\ IF validateEnvironment(e).message # ""
       THEN Finish(h, calls[h], NoThrown,
                   EnvRejected500(e, validateEnvironment(e), timestamp))
       ELSE Begin(h, method, HandlerHeaders)
    /\ UNCHANGED <<tokenRetryCount, playRetryCount, widgetVars>>

ValidatedTokenResponds(h, r) ==
    /\ hpc[h].at = "token"
    /\ LET cs == answer(calls[h], r) IN
       IF r.rejected
       THEN Finish(h, cs, FetchFailed,
                   ValidatedError("Network error connecting to Spotify"))
       ELSE IF ~ok(r)
       THEN IF r.status = 400 \/ r.status = 401
            THEN Finish(h, cs, NoThrown, ValidatedAuthFailed(env[h]))
            ELSE Finish(h, cs, NoThrown, ValidatedError("Authentication failed"))
       ELSE IF r.body.access_token = ""
       THEN Finish(h, cs, NoThrown, ValidatedError("Authentication failed"))
       ELSE Await(h, issue(cs, "playback"), Pc("playback", 0))
    /\ UNCHANGED <<tokenRetryCount, playRetryCount, req, env, widgetVars>>

ValidatedPlaybackResponds(h, r) ==
    /\ hpc[h].at = "playback"
    /\ LET cs == answer(calls[h], r) IN
       IF r.rejected
       THEN Finish(h, cs, FetchFailed,
                   ValidatedError("Network error connecting to Spotify"))
       ELSE IF r.status = 204
       THEN Finish(h, cs, NoThrown, Response(200, {CacheControl60}, NotPlaying))
       ELSE IF r.status = 401
       THEN Finish(h, cs, NoThrown, ValidatedError("Authentication error"))
       ELSE IF r.status = 429
       THEN Finish(h, cs, NoThrown, ValidatedRateLimited(r))
       ELSE IF r.status >= 400 /\ r.status < 500
       THEN Finish(h, cs, NoThrown, ValidatedError("Spotify API error"))
       ELSE IF r.status >= 500
       THEN Finish(h, cs, NoThrown,
                   ValidatedError("Spotify API temporarily unavailable"))
       ELSE IF ~ok(r)
       THEN Finish(h, cs, NoThrown, ValidatedError("Spotify API error"))
       ELSE Finish(h, cs, NoThrown, validatedNowPlaying(r.body))
    /\ UNCHANGED <<tokenRetryCount, playRetryCount, req, env, widgetVars>>

(* The production version of the endpoint, based on the debug              *)
(* implementation: the handler tests the credentials itself and answers    *)
(* every case, without retries.                                            *)

\* the handler up to its first fetch: a GET with a credential that is not
\* set is answered at once
ProductionInvoke(h, method, e) ==
    /\ hpc[h].at = "idle"
    /\ req' = [req EXCEPT ![h] = Request(method, "")]
    /\ env' = [env EXCEPT ![h] = e]
    /\ IF /\ method = "GET"
          /\ \/ e.SPOTIFY_CLIENT_ID = <<>>
             \/ e.SPOTIFY_CLIENT_SECRET = <<>>
             \/ e.SPOTIFY_REFRESH_TOKEN = <<>>
       THEN Finish(h, calls[h], NoThrown,
                   setHeaders(ValidatedError("Server configuration error"),
                              HandlerHeaders))
       ELSE Begin(h, method, HandlerHeaders)
    /\ UNCHANGED <<tokenRetryCount, playRetryCount, widgetVars>>

ProductionTokenResponds(h, r) ==
    /\ hpc[h].at = "token"
    /\ LET cs == answer(calls[h], r) IN
       IF r.rejected
       THEN Finish(h, cs, FetchFailed,
                   ValidatedError("Network error connecting to Spotify"))
       ELSE IF ~ok(r)
       THEN Finish(h, cs, NoThrown, ValidatedError("Authentication failed"))
       ELSE IF r.body.access_token = ""
       THEN Finish(h, cs, NoThrown, ValidatedError("Authentication failed"))
       ELSE Await(h, issue(cs, "playback"), Pc("playback", 0))
    /\ UNCHANGED <<tokenRetryCount, playRetryCount, req, env, widgetVars>>

ProductionPlaybackResponds(h, r) ==
    /\ hpc[h].at = "playback"
    /\ LET cs == answer(calls[h], r) IN
       IF r.rejected
       THEN Finish(h, cs, FetchFailed,
                   ValidatedError("Network error connecting to Spotify"))
       ELSE IF r.status = 204
       THEN Finish(h, cs, NoThrown, Response(200, {CacheControl60}, NotPlaying))
       ELSE IF r.status >= 400 /\ r.status < 500
       THEN Finish(h, cs, NoThrown, ValidatedError("Spotify API error"))
       ELSE IF r.status >= 500
       THEN Finish(h, cs, NoThrown,
                   ValidatedError("Spotify API temporarily unavailable"))
       ELSE IF ~ok(r)
       THEN Finish(h, cs, NoThrown, ValidatedError("Spotify API error"))
       ELSE Finish(h, cs, NoThrown, validatedNowPlaying(r.body))
    /\ UNCHANGED <<tokenRetryCount, playRetryCount, req, env, widgetVars>>

(* The endpoint behind utils/cors: getAccessToken and getNowPlaying retry  *)
(* as above; the handler calls corsMiddleware first.                       *)

SiteOrigin == "https://site.example"
\* the Origin headers of the requests; "" is a request without one
Origins == {"", SiteOrigin, "https://evil.example", "http://localhost:8080"}

DEFAULT_DEV_ORIGINS ==
    {"http://localhost:3000", "http://localhost:3001",
     "http://127.0.0.1:3000", "http://127.0.0.1:3001"}

\* origin.match(/^https?:\/\/localhost:\d+$/) and the same for 127.0.0.1
matchesLocalhost(origin) ==
    origin \in DEFAULT_DEV_ORIGINS \cup {"http://localhost:8080"}

getAllowedOrigins(e) ==
    IF e.NODE_ENV = "development"
    THEN e.ALLOWED_ORIGINS \cup DEFAULT_DEV_ORIGINS
    ELSE e.ALLOWED_ORIGINS

isOriginAllowed(origin, e) ==
    IF origin = "" THEN FALSE
    ELSE IF origin \in getAllowedOrigins(e) THEN TRUE
    ELSE e.NODE_ENV = "development" /\ matchesLocalhost(origin)

\* setCorsHeaders: its return value
setCorsHeaders(origin, e) ==
    isOriginAllowed(origin, e) \/ e.NODE_ENV = "development"

\* setCorsHeaders: the headers it sets; for a request without an Origin
\* header in development these are the three it sets before it throws
corsHeaders(origin, e) ==
    {<<"Access-Control-Allow-Methods", "GET, OPTIONS">>,
     <<"Access-Control-Allow-Headers", "Content-Type, Authorization">>,
     <<"Access-Control-Max-Age", "86400">>}
    \cup (IF isOriginAllowed(origin, e)
          THEN {<<"Access-Control-Allow-Origin", origin>>,
                <<"Access-Control-Allow-Credentials", "true">>}
          ELSE IF e.NODE_ENV = "development" /\ origin # ""
          THEN {<<"Access-Control-Allow-Origin", origin>>}
          ELSE {})

\* res.setHeader(name, undefined) throws: setCorsHeaders in development for
\* a request without an Origin header
InvalidHeaderValue == Thrown("ERR_HTTP_INVALID_HEADER_VALUE", "")
corsThrows(origin, e) ==
    ~isOriginAllowed(origin, e) /\ e.NODE_ENV = "development" /\ origin = ""

\* res.setHeader and res.json after a response was sent
HeadersSent == Thrown("ERR_HTTP_HEADERS_SENT", "")

CorsViolation ==
    [error |-> "CORS policy violation", message |-> "Origin not allowed"]

\* corsMiddleware(req, res): the state of res when it returns.  Status 0:
\* nothing is sent yet, the headers are set.
corsMiddleware(r, e) ==
    LET headers == corsHeaders(r.origin, e) IN
    IF r.method = "OPTIONS"
    THEN IF setCorsHeaders(r.origin, e) THEN Response(200, headers, <<>>)
         ELSE Response(403, headers, CorsViolation)
    ELSE IF e.NODE_ENV = "production" /\ ~setCorsHeaders(r.origin, e)
    THEN Response(403, headers, CorsViolation)
    ELSE Response(0, headers, <<>>)

\* Has res been sent
sent(response) == response.status # 0

\* res.setHeader(...) of the given headers, then res.status(status).json(body)
\* at the end of the invocation: both throw when res has been sent, in the
\* try block and again in the catch block.
CorsFinish(h, cs, err, status, headers, body) ==
    IF sent(res[h]) THEN Finish(h, cs, HeadersSent, res[h])
    ELSE Finish(h, cs, err, Response(status, headers, body))

\* getNowPlaying behind utils/cors: the snapshot built from a 200 body
corsNowPlaying(data) ==
    IF ~data.is_playing THEN NotPlaying
    ELSE IF data.item = NoUpItem THEN NotPlaying
    ELSE Playing(Num(orZero(data.progress_ms)),
                 OutItem(IF data.item.name = "" THEN "Unknown Track"
                         ELSE data.item.name,
                         IF data.item.artists.present
                         THEN artistNames(data.item.artists)
                         ELSE Names(<<"Unknown Artist">>),
                         Num(orZero(data.item.duration_ms))))

\* handler(req, res): corsMiddleware(req, res), whose outcome the handler
\* does not look at, then the method test and the first fetch
CorsInvoke(h, method, origin, nodeEnv) ==
    LET r == Request(method, origin)
        e == Env(nodeEnv, "", [k \in 1..CredentialLength |-> "a"],
                 [k \in 1..CredentialLength |-> "b"],
                 [k \in 1..MinRefreshTokenLength |-> "r"], {SiteOrigin})
        afterCors == corsMiddleware(r, e)
    IN
    /\ hpc[h].at = "idle"
    /\ req' = [req EXCEPT ![h] = r]
    /\ env' = [env EXCEPT ![h] = e]
    /\ IF corsThrows(origin, e)
       THEN Finish(h, calls[h], InvalidHeaderValue,
                   Response(0, corsHeaders(origin, e), <<>>))
       ELSE IF method # "GET"
       THEN IF sent(afterCors)
            THEN Finish(h, calls[h], HeadersSent, afterCors)
            ELSE Finish(h, calls[h], NoThrown,
                        Response(405, afterCors.headers, NotAllowed405.body))
       ELSE /\ hpc' = [hpc EXCEPT ![h] = Pc("token", 0)]
            /\ calls' = [calls EXCEPT ![h] = issue(@, "token")]
            /\ res' = [res EXCEPT ![h] = afterCors]
            /\ UNCHANGED thrown
    /\ UNCHANGED <<tokenRetryCount, playRetryCount, widgetVars>>

CorsTokenResponds(h, r) ==
    /\ hpc[h].at = "token"
    /\ LET cs == answer(calls[h], r) IN
       IF r.rejected
       THEN CorsFinish(h, cs, rethrow(rethrow(FetchFailed)), 500, {}, Failed500.body)
       ELSE IF ~ok(r)
       THEN IF tokenRetries(r, tokenRetryCount[h])
            THEN Await(h, cs, Pc("tokenBackoff", backoffDelay(tokenRetryCount[h])))
            ELSE CorsFinish(h, cs, rethrow(rethrow(tokenError(r))),
                            500, {}, Failed500.body)
       ELSE Await(h, issue(cs, "playback"), Pc("playback", 0))
    /\ UNCHANGED <<tokenRetryCount, playRetryCount, req, env, widgetVars>>

CorsPlaybackResponds(h, r) ==
    /\ hpc[h].at = "playback"
    /\ LET cs == answer(calls[h], r) IN
       IF r.rejected
       THEN CorsFinish(h, cs, rethrow(FetchFailed), 500, {}, Failed500.body)
       ELSE IF r.status = 204
       THEN CorsFinish(h, cs, NoThrown, 200, {CacheControl10}, NotPlaying)
       ELSE IF playbackRetries(r, playRetryCount[h])
       THEN Await(h, cs, Pc("playbackBackoff", backoffDelay(playRetryCount[h])))
       ELSE IF ~ok(r)
       THEN CorsFinish(h, cs, rethrow(playbackError(r)), 500, {}, Failed500.body)
       ELSE CorsFinish(h, cs, NoThrown, 200, {CacheControl10},
                       corsNowPlaying(r.body))
    /\ UNCHANGED <<tokenRetryCount, playRetryCount, req, env, widgetVars>>

----------------------------------------------------------------------------
(* Initial state: the module is loaded, no component is mounted yet *)

Init ==
    /\ now = 0
    /\ globalCache = [k \in Urls \X BOOLEAN |-> NoEntry]
    /\ pendingRequests = [u \in Urls |-> 0]
    /\ requests = [n \in ReqIds |-> NoRequest]
    /\ nreq = 0
    /\ waiters = [n \in ReqIds |-> <<>>]
    /\ mounted = [i \in Widgets |-> "new"]
    /\ apiUrl = [i \in Widgets |-> IF i \in Inst THEN "api" ELSE "other"]
    /\ queued = [i \in Widgets |->
                     ReactState(InitialInstState.track, InitialInstState.loading,
                                InitialInstState.error, InitialInstState.retryCount)]
    /\ effects = [i \in Widgets |-> NoEffects]
    /\ track = [i \in Widgets |-> InitialInstState.track]
    /\ loading = [i \in Widgets |-> InitialInstState.loading]
    /\ error = [i \in Widgets |-> InitialInstState.error]
    /\ retryCount = [i \in Widgets |-> InitialInstState.retryCount]
    /\ retryCountRef = [i \in Widgets |-> InitialInstState.retryCountRef]
    /\ isPlayingRef = [i \in Widgets |-> InitialInstState.isPlayingRef]
    /\ timers = [i \in Widgets |-> InitialInstState.timers]
    /\ lastWrite = [u \in Urls |-> NoEntry]
    /\ served = NoServed
    /\ InitEndpoint

----------------------------------------------------------------------------
(* Actions *)

\* First render of instance i and its commit; both effects are left to run
Mount(i) ==
    /\ ~Busy
    /\ mounted[i] = "new"
    /\ mounted' = [mounted EXCEPT ![i] = "mounted"]
    /\ effects' = [effects EXCEPT ![i] = MountEffects]
    /\ UNCHANGED <<now, globalCache, pendingRequests, requests, nreq, waiters,
                   rendered, queued, retryCountRef, isPlayingRef, timers,
                   lastWrite, served>>

\* Instance i is removed: the values its setters queued are never rendered;
\* the cleanup of the mount effect is left to run.  React runs the effects
\* of the commit before, if any, first.
Unmount(i) ==
    /\ ~Busy
    /\ mounted[i] = "mounted"
    /\ effects[i] = NoEffects
    /\ mounted' = [mounted EXCEPT ![i] = "unmounted"]
    /\ queued' = [queued EXCEPT ![i] = Rendered(i)]
    /\ effects' = [effects EXCEPT ![i] = UnmountEffects]
    /\ UNCHANGED <<now, globalCache, pendingRequests, requests, nreq, waiters,
                   rendered, retryCountRef, isPlayingRef, timers, lastWrite,
                   served>>

\* the setters called by the handlers of instance i wait for a render
RenderPending(i) == mounted[i] = "mounted" /\ queued[i] # Rendered(i)

\* React renders instance i with the queued state and commits it; it runs
\* the effects of the commit before, if any, first
RenderCommit(i) ==
    /\ ~Busy
    /\ RenderPending(i)
    /\ effects[i] = NoEffects
    /\ track' = [track EXCEPT ![i] = queued[i].track]
    /\ loading' = [loading EXCEPT ![i] = queued[i].loading]
    /\ error' = [error EXCEPT ![i] = queued[i].error]
    /\ retryCount' = [retryCount EXCEPT ![i] = queued[i].retryCount]
    /\ effects' = [effects EXCEPT ![i] = RenderEffects(Rendered(i), queued[i])]
    /\ UNCHANGED <<now, globalCache, pendingRequests, requests, nreq, waiters,
                   mounted, apiUrl, queued, retryCountRef, isPlayingRef, timers,
                   lastWrite, served>>

\* The parent renders mounted instance i with another apiUrl: the queued
\* state is committed with it; the mount effect (deps [apiUrl]) is left to
\* be cleaned up and to run again, and the poll effect to run because
\* scheduleNextPoll is a new function
ApiUrlChanges(i, url) ==
    /\ ~Busy
    /\ mounted[i] = "mounted"
    /\ effects[i] = NoEffects
    /\ url # apiUrl[i]
    /\ apiUrl' = [apiUrl EXCEPT ![i] = url]
    /\ track' = [track EXCEPT ![i] = queued[i].track]
    /\ loading' = [loading EXCEPT ![i] = queued[i].loading]
    /\ error' = [error EXCEPT ![i] = queued[i].error]
    /\ retryCount' = [retryCount EXCEPT ![i] = queued[i].retryCount]
    /\ effects' = [effects EXCEPT ![i] = ApiUrlEffects]
    /\ UNCHANGED <<now, globalCache, pendingRequests, requests, nreq, waiters,
                   mounted, queued, retryCountRef, isPlayingRef, timers,
                   lastWrite, served>>

\* The passive effects of the latest commit of instance i run: the cleanup
\* of the mount effect, the mount effect (fetchData()) and the poll effect
\* (if (!loading) scheduleNextPoll()), which are closures of that commit.
\* fetchData() touches no timer and scheduleNextPoll() reads nothing that
\* fetchData() writes before its first await, so they are applied here in
\* the order that the operators allow.
RunEffects(i, maxReq) ==
    /\ ~Busy
    /\ effects[i] # NoEffects
    /\ effects' = [effects EXCEPT ![i] = NoEffects]
    /\ LET s0 == IF "cleanup" \in effects[i]
                 THEN [InstState(i) EXCEPT !.timers = cleanup(@)]
                 ELSE InstState(i)
           s1 == IF "poll" \in effects[i] /\ ~loading[i]
                 THEN scheduleNextPoll(s0, error[i], apiUrl[i])
                 ELSE s0 IN
       IF "mount" \in effects[i]
       THEN fetchData(i, apiUrl[i], TRUE, FALSE, s1, maxReq)
       ELSE /\ Commit(i, s1)
            /\ UNCHANGED <<globalCache, pendingRequests, requests, nreq,
                           waiters, served>>
    /\ UNCHANGED <<now, mounted, rendered, lastWrite>>

\* The timer armed by scheduleNextPoll fires: fetchData()
PollTimerFires(i, k, maxReq) ==
    /\ ~Busy
    /\ k \in DOMAIN timers[i]
    /\ timers[i][k].kind = "poll"
    /\ timers[i][k].due <= now
    /\ fetchData(i, timers[i][k].url, mounted[i] = "mounted", FALSE,
                 [InstState(i) EXCEPT !.timers = RemoveAt(@, k)], maxReq)
    /\ UNCHANGED <<now, mounted, rendered, effects, lastWrite>>

\* The timer armed by the catch block fires:
\*   retryCountRef.current += 1; setRetryCount(...); fetchData(true)
RetryTimerFires(i, k, maxReq) ==
    /\ ~Busy
    /\ k \in DOMAIN timers[i]
    /\ timers[i][k].kind = "retry"
    /\ timers[i][k].due <= now
    /\ LET alive == mounted[i] = "mounted"
           s0 == [InstState(i) EXCEPT !.timers = RemoveAt(@, k),
                                      !.retryCountRef = @ + 1]
           s1 == setState(alive, s0, s0.track, s0.error, s0.retryCountRef) IN
       fetchData(i, timers[i][k].url, alive, TRUE, s1, maxReq)
    /\ UNCHANGED <<now, mounted, rendered, effects, lastWrite>>

\* (mutant) the promise settles but its entry stays in pendingRequests
FetchSettlesKeepsEntry(n, o) ==
    /\ ~Busy
    /\ requests[n].st = "pending"
    /\ requests' = [requests EXCEPT ![n] =
           [@ EXCEPT !.st = "settled", !.rejected = o.rejected,
                     !.status = o.status, !.is_playing = o.is_playing,
                     !.retryAfter = o.retryAfter]]
    /\ UNCHANGED <<now, globalCache, pendingRequests, nreq, waiters, mounted,
                   instVars, lastWrite, served>>

\* The network answers request n with outcome o: the promise of fetch()
\* settles and its finally callback deletes the entry of pendingRequests.
FetchSettles(n, o) ==
    /\ ~Busy
    /\ requests[n].st = "pending"
    /\ requests' = [requests EXCEPT ![n] =
           [@ EXCEPT !.st = "settled", !.rejected = o.rejected,
                     !.status = o.status, !.is_playing = o.is_playing,
                     !.retryAfter = o.retryAfter]]
    /\ pendingRequests' = [pendingRequests EXCEPT ![requests[n].url] = 0]
    /\ UNCHANGED <<now, globalCache, nreq, waiters, mounted, instVars,
                   lastWrite, served>>

\* a request nothing refers to any more leaves the heap
Collect(r, ws) == IF ws = <<>> /\ r.reader = 0 THEN DoneRequest ELSE r

\* The oldest caller awaiting settled request n resumes after
\* `await deduplicatedFetch(...)` and runs to its next await or its end.
Resume(n, jitters) ==
    /\ requests[n].st = "settled"
    /\ waiters[n] # <<>>
    /\ LET i == Head(waiters[n])
           r == requests[n]
           alive == mounted[i] = "mounted" IN
       /\ waiters' = [waiters EXCEPT ![n] = Tail(@)]
       /\ IF ~r.rejected /\ r.status = 200 /\ ~r.bodyUsed
          THEN \* response.ok: await response.json()
               /\ requests' = [requests EXCEPT ![n] =
                      [@ EXCEPT !.bodyUsed = TRUE, !.reader = i, !.since = now]]
               /\ UNCHANGED instVars
          ELSE \E jitter \in jitters :
               LET err == IF r.rejected THEN NetworkError
                          ELSE IF r.status = 200 THEN BodyUsedError
                          ELSE ErrorMessage(r) IN
               /\ Commit(i, catch(alive, InstState(i), r.url, err, jitter))
               /\ UNCHANGED <<rendered, effects>>
               /\ requests' = [requests EXCEPT ![n] =
                      Collect([@ EXCEPT !.threw = TRUE], Tail(waiters[n]))]
    /\ UNCHANGED <<now, globalCache, pendingRequests, nreq, mounted,
                   lastWrite, served>>

\* a fetchData that shows the snapshot without updating isPlayingRef
JsonResolvesKeepsFlag(n) ==
    /\ ~Busy
    /\ requests[n].reader # 0
    /\ LET i == requests[n].reader
           alive == mounted[i] = "mounted"
           url == requests[n].url
           jsonData == Snap(n, requests[n].is_playing)
           s0 == [InstState(i) EXCEPT !.retryCountRef = 0]
           s1 == setLoading(alive, setState(alive, s0, jsonData, NoError, 0), FALSE) IN
       /\ globalCache' = setCachedData(globalCache, url,
                                       jsonData.is_playing, jsonData, now)
       /\ lastWrite' = [lastWrite EXCEPT ![url] =
                            [data |-> jsonData, timestamp |-> now]]
       /\ requests' = [requests EXCEPT ![n] = DoneRequest]
       /\ Commit(i, s1)
    /\ UNCHANGED <<now, pendingRequests, nreq, waiters, mounted, rendered, effects,
                   served>>

\* a fetchData that drops the snapshot of an unmounted component
JsonResolvesMountedOnly(n) ==
    /\ ~Busy
    /\ requests[n].reader # 0
    /\ LET i == requests[n].reader
           alive == mounted[i] = "mounted"
           url == requests[n].url
           jsonData == Snap(n, requests[n].is_playing)
           s0 == [InstState(i) EXCEPT !.isPlayingRef = jsonData.is_playing,
                                      !.retryCountRef = 0]
           s1 == setLoading(alive, setState(alive, s0, jsonData, NoError, 0), FALSE) IN
       /\ globalCache' = IF alive
                         THEN setCachedData(globalCache, url,
                                            jsonData.is_playing, jsonData, now)
                         ELSE globalCache
       /\ lastWrite' = [lastWrite EXCEPT ![url] =
                            [data |-> jsonData, timestamp |-> now]]
       /\ requests' = [requests EXCEPT ![n] = DoneRequest]
       /\ Commit(i, s1)
    /\ UNCHANGED <<now, pendingRequests, nreq, waiters, mounted, rendered, effects,
                   served>>

\* response.json() of request n resolves: the rest of fetchData's try block
JsonResolves(n) ==
    /\ ~Busy
    /\ requests[n].reader # 0
    /\ LET i == requests[n].reader
           alive == mounted[i] = "mounted"
           url == requests[n].url
           jsonData == Snap(n, requests[n].is_playing)
           s0 == [InstState(i) EXCEPT !.isPlayingRef = jsonData.is_playing,
                                      !.retryCountRef = 0]
           s1 == setLoading(alive, setState(alive, s0, jsonData, NoError, 0), FALSE) IN
       /\ globalCache' = setCachedData(globalCache, url,
                                       jsonData.is_playing, jsonData, now)
       /\ lastWrite' = [lastWrite EXCEPT ![url] =
                            [data |-> jsonData, timestamp |-> now]]
       /\ requests' = [requests EXCEPT ![n] = DoneRequest]
       /\ Commit(i, s1)
    /\ UNCHANGED <<now, pendingRequests, nreq, waiters, mounted, rendered, effects,
                   served>>

\* Time passes.  The clock starts with the first mount; the network, the
\* body reads and the timers are late by no more than their bounds, and
\* React renders a queued state and runs the effects of a commit before
\* the clock moves on.
Elapse(horizon, latency) ==
    /\ ~Busy
    /\ \A i \in Widgets : ~RenderPending(i) /\ effects[i] = NoEffects
    /\ now + TickMs <= horizon
    /\ \E i \in Widgets : mounted[i] # "new"
    /\ \A n \in ReqIds :
           requests[n].st = "pending" \/ requests[n].reader # 0
               => now + TickMs <= requests[n].since + latency
    /\ \A i \in Widgets : \A k \in DOMAIN timers[i] :
           now + TickMs <= timers[i][k].due + MaxLateMs
    /\ now' = now + TickMs
    /\ UNCHANGED <<globalCache, pendingRequests, requests, nreq, waiters,
                   mounted, instVars, lastWrite, served>>

\* Time passes on a page whose network answers within MaxLatencyMs
Tick(horizon) == Elapse(horizon, MaxLatencyMs)

TimerSlots == 1..(MaxRequestsSolo + 2)

\* A page with NInst widgets that are never unmounted
Next ==
    \/ \E i \in Inst : Mount(i) /\ UNCHANGED epVars
    \/ \E i \in Inst, k \in TimerSlots : PollTimerFires(i, k, MaxRequests) /\ UNCHANGED epVars
    \/ \E i \in Inst, k \in TimerSlots : RetryTimerFires(i, k, MaxRequests) /\ UNCHANGED epVars
    \/ \E n \in ReqIds, o \in PageOutcomes : FetchSettles(n, o) /\ UNCHANGED epVars
    \/ \E n \in ReqIds : Resume(n, NoJitter) /\ UNCHANGED epVars
    \/ \E n \in ReqIds : JsonResolves(n) /\ UNCHANGED epVars
    \/ \E i \in Inst : RenderCommit(i) /\ UNCHANGED epVars
    \/ \E i \in Inst : RunEffects(i, MaxRequests) /\ UNCHANGED epVars
    \/ Tick(MaxNow) /\ UNCHANGED epVars

Spec == Init /\ [][Next]_vars

\* A page with one widget, which may be unmounted
NextSolo ==
    \/ Mount(1) /\ UNCHANGED epVars
    \/ Unmount(1) /\ UNCHANGED epVars
    \/ \E k \in TimerSlots : PollTimerFires(1, k, MaxRequestsSolo) /\ UNCHANGED epVars
    \/ \E k \in TimerSlots : RetryTimerFires(1, k, MaxRequestsSolo) /\ UNCHANGED epVars
    \/ \E n \in ReqIds, o \in AllOutcomes : FetchSettles(n, o) /\ UNCHANGED epVars
    \/ \E n \in ReqIds : Resume(n, Jitter) /\ UNCHANGED epVars
    \/ \E n \in ReqIds : JsonResolves(n) /\ UNCHANGED epVars
    \/ RenderCommit(1) /\ UNCHANGED epVars
    \/ RunEffects(1, MaxRequestsSolo) /\ UNCHANGED epVars
    \/ Tick(MaxNowSolo) /\ UNCHANGED epVars

SpecSolo == Init /\ [][NextSolo]_vars

\* A page with one widget, never unmounted, on a network that may take
\* as long as the poll interval after an error to answer
NextSlow ==
    \/ Mount(1) /\ UNCHANGED epVars
    \/ \E k \in TimerSlots : PollTimerFires(1, k, MaxRequestsSlow) /\ UNCHANGED epVars
    \/ \E k \in TimerSlots : RetryTimerFires(1, k, MaxRequestsSlow) /\ UNCHANGED epVars
    \/ \E n \in ReqIds, o \in PageOutcomes : FetchSettles(n, o) /\ UNCHANGED epVars
    \/ \E n \in ReqIds : Resume(n, NoJitter) /\ UNCHANGED epVars
    \/ \E n \in ReqIds : JsonResolves(n) /\ UNCHANGED epVars
    \/ RenderCommit(1) /\ UNCHANGED epVars
    \/ RunEffects(1, MaxRequestsSlow) /\ UNCHANGED epVars
    \/ Elapse(MaxNowSlow, MaxLatencySlowMs) /\ UNCHANGED epVars

SpecSlow == Init /\ [][NextSlow]_vars

\* A page with two widgets that are given different apiUrls
TwoUrls == {1, OtherInst}

NextUrls ==
    \/ \E i \in TwoUrls : Mount(i) /\ UNCHANGED epVars
    \/ \E i \in TwoUrls, k \in TimerSlots :
           PollTimerFires(i, k, MaxRequests) /\ UNCHANGED epVars
    \/ \E i \in TwoUrls, k \in TimerSlots :
           RetryTimerFires(i, k, MaxRequests) /\ UNCHANGED epVars
    \/ \E n \in ReqIds, o \in PageOutcomes : FetchSettles(n, o) /\ UNCHANGED epVars
    \/ \E n \in ReqIds : Resume(n, NoJitter) /\ UNCHANGED epVars
    \/ \E n \in ReqIds : JsonResolves(n) /\ UNCHANGED epVars
    \/ \E i \in TwoUrls : RenderCommit(i) /\ UNCHANGED epVars
    \/ \E i \in TwoUrls : RunEffects(i, MaxRequests) /\ UNCHANGED epVars
    \/ Tick(MaxNow) /\ UNCHANGED epVars

SpecUrls == Init /\ [][NextUrls]_vars

\* A page with one widget whose apiUrl the parent changes to another value
NewUrls == Urls \ {"api"}

NextProp ==
    \/ Mount(1) /\ UNCHANGED epVars
    \/ \E u \in NewUrls : ApiUrlChanges(1, u) /\ UNCHANGED epVars
    \/ \E k \in TimerSlots : PollTimerFires(1, k, MaxRequests) /\ UNCHANGED epVars
    \/ \E k \in TimerSlots : RetryTimerFires(1, k, MaxRequests) /\ UNCHANGED epVars
    \/ \E n \in ReqIds, o \in PageOutcomes : FetchSettles(n, o) /\ UNCHANGED epVars
    \/ \E n \in ReqIds : Resume(n, NoJitter) /\ UNCHANGED epVars
    \/ \E n \in ReqIds : JsonResolves(n) /\ UNCHANGED epVars
    \/ RenderCommit(1) /\ UNCHANGED epVars
    \/ RunEffects(1, MaxRequests) /\ UNCHANGED epVars
    \/ Tick(MaxNow) /\ UNCHANGED epVars

SpecProp == Init /\ [][NextProp]_vars

\* One invocation of the endpoint
NextEndpoint ==
    \/ \E m \in Methods : Invoke(1, m)
    \/ \E r \in TokenAnswers : TokenResponds(1, r)
    \/ TokenBackoffElapses(1)
    \/ \E r \in PlaybackAnswers : PlaybackResponds(1, r)
    \/ PlaybackBackoffElapses(1)

SpecEndpoint == Init /\ [][NextEndpoint]_vars

\* One invocation whose upstream calls all return and whose timers all fire
SpecEndpointFair == SpecEndpoint /\ WF_vars(NextEndpoint)

\* NHandlers invocations of the first version of the endpoint
NextLegacy ==
    \/ \E h \in Handlers, m \in Methods : LegacyInvoke(h, m)
    \/ \E h \in Handlers, r \in TokenAnswers : LegacyTokenResponds(h, r)
    \/ \E h \in Handlers, r \in PlaybackAnswers : LegacyPlaybackResponds(h, r)

SpecLegacy == Init /\ [][NextLegacy]_vars

\* the environments of the endpoints that test their credentials
Envs ==
    {Env(n, v, id, secret, token, {}) :
        n \in NodeEnvs, v \in VercelEnvs, id \in ClientIds,
        secret \in ClientSecrets, token \in RefreshTokens}

\* One invocation of the endpoint with environment validation
NextValidated ==
    \/ \E m \in Methods, e \in Envs, t \in Timestamps : ValidatedInvoke(1, m, e, t)
    \/ \E r \in TestedTokenAnswers : ValidatedTokenResponds(1, r)
    \/ \E r \in PlaybackAnswers : ValidatedPlaybackResponds(1, r)

SpecValidated == Init /\ [][NextValidated]_vars

\* One invocation of the production version of the endpoint
NextProduction ==
    \/ \E m \in Methods, e \in Envs : ProductionInvoke(1, m, e)
    \/ \E r \in TestedTokenAnswers : ProductionTokenResponds(1, r)
    \/ \E r \in PlaybackAnswers : ProductionPlaybackResponds(1, r)

SpecProduction == Init /\ [][NextProduction]_vars

\* One invocation of the endpoint behind utils/cors
NextCors ==
    \/ \E m \in Methods, o \in Origins, e \in NodeEnvs : CorsInvoke(1, m, o, e)
    \/ \E r \in TokenAnswers : CorsTokenResponds(1, r)
    \/ TokenBackoffElapses(1)
    \/ \E r \in PlaybackAnswers : CorsPlaybackResponds(1, r)
    \/ PlaybackBackoffElapses(1)

SpecCors == Init /\ [][NextCors]_vars

----------------------------------------------------------------------------
(* Properties *)

InFlight(u) == {n \in ReqIds : requests[n].st = "pending" /\ requests[n].url = u}

\* fetchData calls of instance i that are suspended in an await
Suspended(i) ==
    \/ \E n \in ReqIds : \E k \in DOMAIN waiters[n] : waiters[n][k] = i
    \/ \E n \in ReqIds : requests[n].reader = i

\* C1: callers of deduplicatedFetch with the same key, from the one that finds
\* no request in flight up to the settlement of that request, share one
\* fetch(): at most one request per key is in flight, it is the one registered
\* in pendingRequests, and every suspended caller awaits it, so that all of them
\* are resumed with its one Response.
C1_Coalescing ==
    /\ \A u \in Urls :
           /\ Cardinality(InFlight(u)) <= 1
           /\ \A n \in InFlight(u) : pendingRequests[u] = n /\ waiters[n] # <<>>
    /\ \A n \in ReqIds :
           waiters[n] # <<>> => requests[n].st \in {"pending", "settled"}

\* two callers coalesced on the only fetch() started so far
C1_Witness ==
    \E n \in ReqIds :
        /\ requests[n].st = "pending"
        /\ Len(waiters[n]) >= 2
        /\ nreq = 1

\* C2 (as claimed): callers coalesced onto one request all end the same way;
\* no request has both a caller that read the snapshot from it and a caller
\* that ended in the catch block.
C2_SameOutcome ==
    \A n \in ReqIds : ~(requests[n].bodyUsed /\ requests[n].threw)

\* C3: a settled request is never registered in pendingRequests; in
\* particular when its awaiting callers are resumed the entry is gone, and a
\* later call for the key starts a new fetch().
C3_NoSettledRegistration ==
    \A u \in Urls :
        pendingRequests[u] # 0 => requests[pendingRequests[u]].st = "pending"

\* a request settled with a failure, its callers about to resume, entry gone
C3_Witness ==
    \E n \in ReqIds :
        /\ requests[n].st = "settled"
        /\ (requests[n].rejected \/ requests[n].status # 200)
        /\ waiters[n] # <<>>
        /\ pendingRequests[requests[n].url] = 0

\* C4 (as claimed): a read answered from the cache returns the snapshot
\* written last for the url, as long as that snapshot has not expired.
C4_ReadsSeeLatestWrite ==
    served.data # NoSnap /\ served.latestFresh => served.data = served.latest

\* C5 (as claimed): a read answered from the cache never returns a snapshot
\* whose playing state differs from that of the snapshot written last.
C5_NoStaleOppositeState ==
    served.data # NoSnap => served.data.is_playing = served.latest.is_playing

\* C6 (as claimed): getCachedData treats an entry as fresh at every age below
\* the TTL of the written snapshot's state and as expired at every age from
\* the TTL on.
C6_ExpiredFromTtlOn ==
    \A u \in Urls, f \in BOOLEAN :
        LET entry == globalCache[<<u, f>>]
            age == now - entry.timestamp
            ttl == IF entry.data.is_playing THEN 5000 ELSE 60000 IN
        entry # NoEntry =>
            /\ age < ttl => getCachedData(globalCache, u, f, now) = entry.data
            /\ age >= ttl => getCachedData(globalCache, u, f, now) = NoSnap

\* nothing of instance i is left to run: no timer, no fetchData in an await,
\* no render, no effect
AtRest(i) ==
    timers[i] = <<>> /\ ~Suspended(i) /\ ~RenderPending(i) /\ effects[i] = NoEffects

\* C7 (as claimed): a mounted instance whose last fetch failed is never at
\* rest: a retry or the error-interval poll is pending, or a fetch is running.
C7_PollingSurvivesFailures ==
    \A i \in Inst :
        mounted[i] = "mounted" /\ error[i] # NoError => ~AtRest(i)

\* C8 (as claimed): a mounted instance whose last poll succeeded is never at
\* rest: the next poll is pending or a fetch is running.
C8_PollingSurvivesSuccess ==
    \A i \in Inst :
        mounted[i] = "mounted" /\ ~loading[i] /\ error[i] = NoError => ~AtRest(i)

\* C9 (as claimed): an unmounted instance has no pending timer once its
\* cleanup has run.
C9_NoTimerAfterUnmount ==
    \A i \in Inst :
        mounted[i] = "unmounted" /\ effects[i] = NoEffects => timers[i] = <<>>

\* the failure classes that may be retried: RateLimited, UpstreamUnavailable,
\* NetworkError
Retryable(r) ==
    r.rejected \/ r.status = 429 \/ r.status >= 500

NRetryTimers(ts) == Cardinality({k \in DOMAIN ts : ts[k].kind = "retry"})

\* C10 (as claimed): a retry is armed only after a failure of a retryable
\* class.
C10_RetryOnlyRetryable ==
    [][\A i \in Inst :
          NRetryTimers(timers'[i]) > NRetryTimers(timers[i])
              => \E n \in ReqIds :
                     /\ requests[n].st = "settled"
                     /\ waiters[n] # <<>> /\ Head(waiters[n]) = i
                     /\ Retryable(requests[n])]_vars

----------------------------------------------------------------------------
(* Properties of the widget's timers, promises and cache *)

MaxAttempt == 6     \* attempt numbers for which getRetryDelay is evaluated

\* the timers of `kind` that instance i arms in a step
Armed(i, kind) ==
    {k \in DOMAIN timers'[i] :
        /\ timers'[i][k].kind = kind
        /\ timers'[i][k].tracked
        /\ \A j \in DOMAIN timers[i] : timers[i][j] # timers'[i][k]}

\* a Retry-After value, seconds in decimal, in ms
HintMs(text) == CASE text = "2" -> 2000 [] text = "60" -> 60000 [] OTHER -> 0

\* C13 (as claimed): after a 429 with Retry-After: 2 the retry is armed no
\* earlier than 2000 ms later.
C13_RetryAfterHonoured ==
    [][\A i \in Inst : \A k \in Armed(i, "retry") :
          /\ queued'[i].error.text = "Spotify rate limit exceeded - retry after"
          /\ queued'[i].error.arg = "2"
          => timers'[i][k].due >= now' + HintMs(queued'[i].error.arg)]_vars

\* C16: getPollingInterval returns 30000 with an error, else 5000 when
\* playing and 60000 when not, and every poll timer is armed with the value
\* for the state the instance is in.
C16_PollIntervals ==
    [][/\ \A p \in BOOLEAN : /\ getPollingInterval(p, TRUE) = 30000
                             /\ getPollingInterval(TRUE, FALSE) = 5000
                             /\ getPollingInterval(FALSE, FALSE) = 60000
       /\ \A i \in Inst : \A k \in Armed(i, "poll") :
              timers'[i][k].due - now' =
                  (IF error'[i] # NoError THEN 30000
                   ELSE IF isPlayingRef'[i] THEN 5000 ELSE 60000)]_vars

\* a poll is scheduled at the error interval, another at the playing one
C16_Witness ==
    \E i \in Inst : \E k \in DOMAIN timers[i] :
        /\ timers[i][k].kind = "poll" /\ timers[i][k].tracked
        /\ error[i] # NoError
        /\ timers[i][k].due = now + 30000

\* the deterministic component claimed for attempt a
Backoff(a) == IF a >= 5 THEN 30000 ELSE 1000 * Pow2(a)

\* C17: getRetryDelay(a) lies in [min(1000*2^a, 30000), that + 1000), its
\* deterministic component does not decrease with a, it never exceeds
\* 31000, and every retry timer is armed with the delay of the attempt.
C17_RetryDelayRange ==
    [][/\ \A a \in 0..MaxAttempt : \A j \in Jitter :
              /\ getRetryDelay(a, j) >= Backoff(a)
              /\ getRetryDelay(a, j) < Backoff(a) + 1000
              /\ getRetryDelay(a, j) <= 31000
              /\ getRetryDelay(a, 0) <= getRetryDelay(a + 1, 0)
       /\ \A i \in Inst : \A k \in Armed(i, "retry") :
              /\ timers'[i][k].due - now' >= Backoff(retryCountRef'[i])
              /\ timers'[i][k].due - now' < Backoff(retryCountRef'[i]) + 1000]_vars

\* the third retry is armed with the largest jitter
C17_Witness ==
    \E i \in Inst : \E k \in DOMAIN timers[i] :
        /\ timers[i][k].kind = "retry"
        /\ retryCountRef[i] = 2
        /\ timers[i][k].due = now + 4999

\* deduplicatedFetch is an async function: what a call returns is the
\* promise of that call, which settles as the request promise n does.
\* k is the place of the call among those still awaiting n.
ReturnedPromise(n, k) == [settlesAs |-> n, call |-> k]

\* C18 (as claimed): the calls coalesced on one request hold the same
\* promise object.
C18_SamePromiseObject ==
    \A n \in ReqIds : \A k1, k2 \in DOMAIN waiters[n] :
        requests[n].st = "pending"
            => ReturnedPromise(n, k1) = ReturnedPromise(n, k2)

CacheKeys == Urls \X BOOLEAN

\* C19: a lookup deletes the entry it finds expired, and nothing else; it
\* returns the stored data of a fresh entry; an entry leaves the cache only
\* by such a lookup.
C19_LazyExpiryOnly ==
    [][/\ \A key \in CacheKeys :
              LET entry == globalCache[key]
                  after == CacheAfterGet(globalCache, key[1], key[2], now)
                  data == getCachedData(globalCache, key[1], key[2], now) IN
              IF entry # NoEntry /\ Expired(entry, key[2], now)
              THEN data = NoSnap /\ after = [globalCache EXCEPT ![key] = NoEntry]
              ELSE data = entry.data /\ after = globalCache
       /\ \A key \in CacheKeys :
              globalCache[key] # NoEntry /\ globalCache'[key] = NoEntry
              => /\ Expired(globalCache[key], key[2], now)
                 /\ \A other \in CacheKeys \ {key} :
                        globalCache'[other] = globalCache[other]]_vars

\* a lookup has found the playing snapshot expired and deleted it
C19_Witness ==
    \E u \in Urls :
        /\ lastWrite[u] # NoEntry
        /\ lastWrite[u].data.is_playing
        /\ globalCache[<<u, TRUE>>] = NoEntry

----------------------------------------------------------------------------
(* Properties of the endpoint *)

Finished(h) == hpc[h].at = "done"
LastCall(h) == calls[h][Len(calls[h])]
CallsTo(h, to) == Cardinality({k \in DOMAIN calls[h] : calls[h][k].to = to})

\* the failures the specification calls retryable
RetryableAnswer(r) == r.rejected \/ r.status = 429 \/ r.status >= 500

\* C11 (as claimed): a failure with 429, with a status >= 500 or with a
\* transport error reaches the handler only when the retry budget of the
\* call that failed is used up.
C11_RetryableSurfacedOnlyWhenExhausted ==
    \A h \in Handlers :
        /\ Finished(h)
        /\ thrown[h] # NoThrown
        /\ RetryableAnswer(LastCall(h).answer)
        => IF LastCall(h).to = "token"
           THEN tokenRetryCount[h] = maxRetries
           ELSE playRetryCount[h] = maxRetries

\* C12 (as claimed): one invocation makes at most 3 calls of the token
\* service and at most 3 calls of the player.
C12_AtMostThreeCallsEach ==
    \A h \in Handlers :
        /\ CallsTo(h, "token") <= maxRetries + 1
        /\ CallsTo(h, "playback") <= maxRetries + 1

\* the answers after which the invocation must end at once
AuthDead(c) ==
    /\ c.answered
    /\ ~c.answer.rejected
    /\ \/ c.to = "token" /\ c.answer.status \in {400, 401}
       \/ c.to = "playback" /\ c.answer.status \in {401, 403}

\* C14: a 400 or 401 of the token service, and a 401 or 403 of the player,
\* is the last call of the invocation, which answers 500 with is_playing
\* false.
C14_AuthFailureEndsInvocation ==
    \A h \in Handlers : \A k \in DOMAIN calls[h] :
        AuthDead(calls[h][k])
        => /\ k = Len(calls[h])
           /\ Finished(h)
           /\ res[h].status = 500
           /\ res[h].body.is_playing = FALSE

\* the token service answered the first refresh with 400 and the invocation
\* has ended
C14_Witness ==
    \E h \in Handlers :
        /\ Len(calls[h]) = 1
        /\ AuthDead(calls[h][1])
        /\ calls[h][1].answer.status = 400
        /\ res[h].status = 500
        /\ res[h].body = Failed500.body

\* The class the specification gives to a failed call
Classify(to, r) ==
    IF r.rejected THEN "NetworkError"
    ELSE IF r.status = 429 THEN "RateLimited"
    ELSE IF r.status >= 500 THEN "UpstreamUnavailable"
    ELSE IF to = "token" /\ r.status = 400 THEN "AuthError"
    ELSE IF to = "token" /\ r.status = 401 THEN "PermissionError"
    ELSE IF to = "playback" /\ r.status = 401 THEN "AuthError"
    ELSE IF to = "playback" /\ r.status = 403 THEN "PermissionError"
    ELSE "Unexpected"

\* The class an Error of the endpoint stands for: the endpoint tells its
\* failures apart by their message only
ErrorClass(err) ==
    CASE err.text = "Unable to connect to Spotify - network error" -> "NetworkError"
      [] err.text = "Spotify rate limit exceeded - retry after" -> "RateLimited"
      [] err.text = "Spotify API temporarily unavailable" -> "UpstreamUnavailable"
      [] err.text = "Invalid refresh token - please re-authorize your Spotify account"
             -> "AuthError"
      [] err.text = "Spotify access token expired - authentication issue" -> "AuthError"
      [] err.text = "Invalid client credentials - check your Spotify app configuration"
             -> "PermissionError"
      [] err.text = "Insufficient Spotify permissions - check app scopes"
             -> "PermissionError"
      [] OTHER -> "Unexpected"

\* C15 (as claimed): the error that ends an invocation is of the class the
\* classification gives to the failed call, for both call types; a
\* RateLimited error carries a hint.
C15_ClassifiedAsSpecified ==
    \A h \in Handlers :
        Finished(h) /\ thrown[h] # NoThrown
        => /\ ErrorClass(thrown[h]) = Classify(LastCall(h).to, LastCall(h).answer)
           /\ ErrorClass(thrown[h]) = "RateLimited" => thrown[h].arg # ""

\* C20 (as claimed): a status >= 400 of the player ends the invocation with
\* an error response, a 204 with a successful not-playing snapshot.
C20_ErrorStatusNeverNotPlaying ==
    \A h \in Handlers :
        Finished(h) /\ calls[h] # <<>> /\ LastCall(h).to = "playback"
                    /\ ~LastCall(h).answer.rejected
        => /\ LastCall(h).answer.status >= 400 => res[h].status >= 400
           /\ LastCall(h).answer.status = 204
                => res[h].status = 200 /\ res[h].body = NotPlaying

\* The invocation ended on a failure: its last call was rejected or answered
\* with a status that is not ok
Failure(h) ==
    /\ Finished(h)
    /\ calls[h] # <<>>
    /\ LastCall(h).answer.rejected \/ ~ok(LastCall(h).answer)

\* C21 (as claimed): every terminal failure is answered with status 500 and
\* a body that holds an error summary and is_playing false; no failure is
\* answered with another status.  The endpoint with environment validation
\* answers a 429 of the player with a 429.
C21_FailureAnsweredWith500 ==
    \A h \in Handlers :
        Failure(h)
        => /\ res[h].status = 500
           /\ "error" \in DOMAIN res[h].body
           /\ res[h].body.is_playing = FALSE

\* C22 (as claimed): the body of an error response does not depend on the
\* credentials or on the raw error: the error bodies of any two invocations
\* are equal and hold the error summary and is_playing only.  The first
\* version of the endpoint adds the error message and the lengths of the
\* credentials.
C22_ErrorBodyIndependent ==
    \A h1, h2 \in Handlers :
        /\ Finished(h1) /\ res[h1].status = 500
        /\ Finished(h2) /\ res[h2].status = 500
        => /\ res[h1].body = res[h2].body
           /\ DOMAIN res[h1].body = {"error", "is_playing"}

\* the answers of the player that mean "nothing is playing"
NotPlayingCase(r) ==
    /\ ~r.rejected
    /\ \/ r.status = 204
       \/ /\ r.status = 200
          /\ \/ ~r.body.is_playing
             \/ r.body.item = NoUpItem
             \/ r.body.item.type # "track"

\* C23: a 204, a paused player, a playing player without an item and a
\* playing item that is not a track are all answered with 200 and exactly
\* { is_playing: false }; no 200 that reports is_playing false holds a
\* progress or an item.
C23_NotPlayingBodyExact ==
    \A h \in Handlers :
        Finished(h) /\ req[h].method = "GET"
        => /\ LastCall(h).to = "playback" /\ NotPlayingCase(LastCall(h).answer)
              => res[h].status = 200 /\ res[h].body = NotPlaying
           /\ res[h].status = 200 /\ ~res[h].body.is_playing
              => DOMAIN res[h].body = {"is_playing"}

\* a paused player that still reports its track and progress
C23_Witness ==
    \E h \in Handlers :
        /\ Finished(h) /\ req[h].method = "GET"
        /\ LastCall(h).answer.body = PlayerBody(FALSE, Num(1000), SongA)
        /\ res[h].status = 200
        /\ res[h].body = NotPlaying

\* C24 (as claimed): is_playing true is returned only for an item of type
\* "track".  The endpoint behind utils/cors does not look at the type.
C24_PlayingOnlyForTracks ==
    \A h \in Handlers :
        /\ Finished(h) /\ req[h].method = "GET"
        /\ res[h].status = 200 /\ res[h].body.is_playing
        => LastCall(h).answer.body.item.type = "track"

\* C25 (as claimed): a 200 that reports is_playing true carries
\* Cache-Control 's-maxage=5, stale-while-revalidate=10' and X-Playing-State
\* 'playing', one that reports false 's-maxage=60, stale-while-revalidate=120'
\* and 'paused'.  No handler sets X-Playing-State or a duration for
\* stale-while-revalidate.
C25_CacheHeaders ==
    \A h \in Handlers :
        Finished(h) /\ req[h].method = "GET" /\ res[h].status = 200
        => IF res[h].body.is_playing
           THEN {<<"Cache-Control", "s-maxage=5, stale-while-revalidate=10">>,
                 <<"X-Playing-State", "playing">>} \subseteq res[h].headers
           ELSE {<<"Cache-Control", "s-maxage=60, stale-while-revalidate=120">>,
                 <<"X-Playing-State", "paused">>} \subseteq res[h].headers

\* the player answered 200 with is_playing true and a track
PlayingTrack(h) ==
    /\ Finished(h) /\ req[h].method = "GET"
    /\ LastCall(h).to = "playback"
    /\ ~LastCall(h).answer.rejected /\ LastCall(h).answer.status = 200
    /\ LastCall(h).answer.body.is_playing
    /\ LastCall(h).answer.body.item # NoUpItem
    /\ LastCall(h).answer.body.item.type = "track"

\* C26 (as claimed): for a playing track the body holds the upstream
\* progress and the upstream name, duration and artists' names.
C26_FieldsFromUpstream ==
    \A h \in Handlers :
        PlayingTrack(h)
        => LET data == LastCall(h).answer.body IN
           /\ res[h].status = 200
           /\ res[h].body.is_playing
           /\ res[h].body.progress_ms = data.progress_ms
           /\ res[h].body.item.name = data.item.name
           /\ res[h].body.item.duration_ms = data.item.duration_ms
           /\ data.item.artists.present
           /\ res[h].body.item.artists.list
                = [i \in DOMAIN data.item.artists.list |-> data.item.artists.list[i].name]

\* C26 (amended): for a playing track the body holds the upstream progress,
\* name, duration and artists' names in upstream order, and where upstream
\* has none of them: progress 0, "Unknown Track", ["Unknown Artist"] and
\* duration 0.
C26_FieldsFromUpstreamOrDefault ==
    \A h \in Handlers :
        PlayingTrack(h)
        => LET data == LastCall(h).answer.body
               out == res[h].body IN
           /\ res[h].status = 200
           /\ DOMAIN out = {"is_playing", "progress_ms", "item"}
           /\ out.is_playing
           /\ out.progress_ms.present
           /\ out.progress_ms.value
                = IF data.progress_ms.present THEN data.progress_ms.value ELSE 0
           /\ out.item.name
                = IF data.item.name # "" THEN data.item.name ELSE "Unknown Track"
           /\ out.item.duration_ms.present
           /\ out.item.duration_ms.value
                = IF data.item.duration_ms.present THEN data.item.duration_ms.value
                  ELSE 0
           /\ IF data.item.artists.present
              THEN /\ Len(out.item.artists.list) = Len(data.item.artists.list)
                   /\ \A i \in DOMAIN data.item.artists.list :
                          out.item.artists.list[i] = data.item.artists.list[i].name
              ELSE out.item.artists.list = <<"Unknown Artist">>

\* scenario A: "Song A" by two artists, 1000 ms into 200000 ms
C26_Witness ==
    \E h \in Handlers :
        /\ PlayingTrack(h)
        /\ LastCall(h).answer.body = PlayerBody(TRUE, Num(1000), SongA)
        /\ res[h].body.item.artists.list = <<"Artist A", "Artist B">>

\* C27: a request whose method is neither GET nor OPTIONS is answered with
\* 405 and no call to Spotify is made for it.
C27_OtherMethods405 ==
    \A h \in Handlers :
        req[h] # NotInvoked /\ req[h].method \notin {"GET", "OPTIONS"}
        => /\ Finished(h)
           /\ res[h].status = 405
           /\ calls[h] = <<>>

C27_Witness ==
    \E h \in Handlers :
        /\ req[h].method = "POST"
        /\ Finished(h)
        /\ res[h].status = 405
        /\ res[h].body = NotAllowed405.body

\* C28 (as claimed): in production a request whose Origin is not in
\* ALLOWED_ORIGINS receives a 403 and no call to Spotify is made for it.
\* The handler does not look at the outcome of corsMiddleware.
C28_UnallowedOriginStopsHere ==
    \A h \in Handlers :
        /\ req[h] # NotInvoked
        /\ env[h].NODE_ENV = "production"
        /\ req[h].origin \notin env[h].ALLOWED_ORIGINS
        => /\ calls[h] = <<>>
           /\ Finished(h) => res[h].status = 403

\* C29: the fetch of a component that was unmounted while it was in flight
\* runs to its end: when its body is read the snapshot is in the shared
\* cache, under the key of its playing flag and with the time of the read,
\* the request is done with, and the component is left as it was: no error
\* is set and no timer is armed.
C29_UnmountedFetchCompletes ==
    [][\A n \in ReqIds :
           /\ requests[n].reader # 0
           /\ mounted[requests[n].reader] = "unmounted"
           /\ JsonResolves(n)
           => LET i == requests[n].reader
                  p == requests[n].is_playing IN
              /\ globalCache'[<<apiUrl[i], p>>] = [data |-> Snap(n, p), timestamp |-> now]
              /\ getCachedData(globalCache', apiUrl[i], p, now') = Snap(n, p)
              /\ requests'[n] = DoneRequest
              /\ error'[i] = error[i]
              /\ track'[i] = track[i]
              /\ timers'[i] = timers[i]]_vars

\* the widget was unmounted before it showed anything, and the snapshot of
\* its first fetch is in the cache
C29_Witness ==
    /\ mounted[1] = "unmounted"
    /\ track[1] = NoSnap
    /\ error[1] = NoError
    /\ lastWrite[apiUrl[1]] # NoEntry
    /\ globalCache[<<apiUrl[1], lastWrite[apiUrl[1]].data.is_playing>>] = lastWrite[apiUrl[1]]

\* the cache holds a fresh entry for the url and the last known playing flag
\* of instance i
FreshFor(i) == getCachedData(globalCache, apiUrl[i], isPlayingRef[i], now) # NoSnap

\* C30: a fetchData that is not a retry (the mount effect, a poll) and
\* finds a fresh entry for (url, last known playing flag) starts no request,
\* joins none, and sets the track to the entry's snapshot, the error to
\* null and the retry count to 0 (the values wait for the next render); the
\* fetchData of a retry calls deduplicatedFetch whatever the cache holds.
C30_CacheHitSkipsNetwork ==
    [][\A i \in Inst :
           /\ /\ FreshFor(i)
              /\ \/ "mount" \in effects[i] /\ RunEffects(i, MaxRequests)
                 \/ \E k \in TimerSlots : PollTimerFires(i, k, MaxRequests)
              => /\ nreq' = nreq
                 /\ requests' = requests
                 /\ waiters' = waiters
                 /\ queued'[i] = ReactState(getCachedData(globalCache, apiUrl[i],
                                                          isPlayingRef[i], now),
                                            FALSE, NoError, 0)
                 /\ retryCountRef'[i] = 0
           /\ (\E k \in TimerSlots : RetryTimerFires(i, k, MaxRequests))
              => LET n == pendingRequests'[apiUrl[i]] IN
                 /\ n # 0
                 /\ requests'[n].st = "pending"
                 /\ waiters'[n] = Append(waiters[n], i)
                 /\ nreq' = IF pendingRequests[apiUrl[i]] = 0 THEN nreq + 1 ELSE nreq]_vars

\* a retry awaits a request that it started or joined while the cache held a
\* fresh entry for it
C30_Witness ==
    \E i \in Inst, n \in ReqIds :
        /\ requests[n].st = "pending"
        /\ \E k \in DOMAIN waiters[n] : waiters[n][k] = i
        /\ retryCount[i] >= 1
        /\ FreshFor(i)
        /\ globalCache[<<apiUrl[i], isPlayingRef[i]>>].timestamp <= requests[n].since

\* the TTL a reference cache stores with an entry when it is written: short
\* for a playing snapshot, long for any other
TtlAtWrite(snapshot) ==
    IF snapshot.is_playing THEN CACHE_TTL_PLAYING ELSE CACHE_TTL_PAUSED

\* C31: for every entry of the cache, under whichever flag it is looked up,
\* getCachedData's expiry decision (TTL chosen by the flag of the lookup) is
\* the decision of a reference cache that fixed the TTL when the entry was
\* written, from the is_playing of the snapshot written.
C31_ExpiryAsWriteTimeTtl ==
    \A u \in Urls, f \in BOOLEAN :
        LET cached == globalCache[<<u, f>>] IN
        cached # NoEntry
        => /\ Expired(cached, f, now)
                <=> (now - cached.timestamp > TtlAtWrite(cached.data))
           /\ (getCachedData(globalCache, u, f, now) = NoSnap)
                <=> (now - cached.timestamp > TtlAtWrite(cached.data))

\* a not-playing entry older than the short TTL and still fresh, next to a
\* playing entry that has expired
C31_Witness ==
    \E u \in Urls :
        /\ globalCache[<<u, FALSE>>] # NoEntry
        /\ now - globalCache[<<u, FALSE>>].timestamp > CACHE_TTL_PLAYING
        /\ getCachedData(globalCache, u, FALSE, now) # NoSnap
        /\ globalCache[<<u, TRUE>>] # NoEntry
        /\ Expired(globalCache[<<u, TRUE>>], TRUE, now)

\* C32 (as claimed): every invocation of the handler behind utils/cors
\* sends exactly one response.  Node sends the first response of an
\* invocation and throws for every later one, so that no invocation sends
\* two; an invocation that has ended has sent one when res is sent.  In
\* development a request without an Origin header makes setCorsHeaders
\* throw before anything is sent, outside the handler's try block.
C32_ExactlyOneResponse ==
    \A h \in Handlers :
        Finished(h) => sent(res[h])

\* C33 (as claimed): retryCountRef stays within 0..MaxRetries.  Two fetches
\* of one instance that fail together each arm a retry, and each retry adds
\* one to the counter when it fires.
C33_RetryCounterBounded ==
    \A i \in Inst : retryCountRef[i] \in 0..MaxRetries

\* C34: every entry of the cache under key (url, f) holds a snapshot whose
\* is_playing is f, so that a lookup under f returns null or a snapshot of
\* playing state f.
C34_EntryMatchesKey ==
    \A u \in Urls, f \in BOOLEAN :
        /\ globalCache[<<u, f>>] # NoEntry
           => globalCache[<<u, f>>].data.is_playing = f
        /\ getCachedData(globalCache, u, f, now) # NoSnap
           => getCachedData(globalCache, u, f, now).is_playing = f

\* both keys of a url hold an entry, and a lookup under each of them is
\* answered
C34_Witness ==
    \E u \in Urls :
        /\ getCachedData(globalCache, u, TRUE, now) # NoSnap
        /\ getCachedData(globalCache, u, FALSE, now) # NoSnap

\* C35 (as claimed): an instance that shows a track has isPlayingRef equal
\* to the is_playing of that track, in every state.
C35_FlagMatchesTrack ==
    \A i \in Inst :
        track[i] # NoSnap => isPlayingRef[i] = track[i].is_playing

\* C35 (amended): isPlayingRef of a mounted instance equals the is_playing of
\* the track set last, which is the track shown once React has rendered; the
\* poll interval, computed by the effect of that render, and the cache key
\* follow it.
C35_FlagMatchesRenderedTrack ==
    \A i \in Inst :
        /\ mounted[i] = "mounted" /\ queued[i].track # NoSnap
           => isPlayingRef[i] = queued[i].track.is_playing
        /\ mounted[i] = "mounted" /\ ~RenderPending(i) /\ track[i] # NoSnap
           => isPlayingRef[i] = track[i].is_playing

\* an instance shows a playing track and polls at the interval of one
C35_Witness ==
    \E i \in Inst :
        /\ mounted[i] = "mounted" /\ ~RenderPending(i)
        /\ track[i] # NoSnap /\ track[i].is_playing /\ isPlayingRef[i]
        /\ \E k \in DOMAIN timers[i] :
               timers[i][k].kind = "poll" /\ timers[i][k].due <= now + POLL_PLAYING

PollTimers(i) == {k \in DOMAIN timers[i] : timers[i][k].kind = "poll"}

\* C36: an instance has at most one poll timer pending.
C36_OnePollTimer ==
    \A i \in Inst : Cardinality(PollTimers(i)) <= 1

\* the poll armed after an error was replaced by the one armed when the
\* retry count changed
C36_Witness ==
    \E i \in Inst :
        /\ retryCount[i] >= 1
        /\ error[i] # NoError
        /\ Cardinality(PollTimers(i)) = 1

\* the callers suspended on request n
WaitersOf(n) == {waiters[n][k] : k \in DOMAIN waiters[n]}

\* C37: requests with different keys are never coalesced: a request is
\* awaited by callers of its own key only and is registered under its own
\* key only, and a step that starts or settles a request of one key leaves
\* the registration of every other key as it was.
C37_KeysIndependent ==
    [][/\ \A n \in ReqIds : \A i \in WaitersOf(n)' : apiUrl[i] = requests'[n].url
       /\ \A u \in Urls :
              pendingRequests'[u] # 0 => requests'[pendingRequests'[u]].url = u
       /\ \A u \in Urls :
              pendingRequests'[u] # pendingRequests[u]
              => /\ \A v \in Urls \ {u} : pendingRequests'[v] = pendingRequests[v]
                 /\ \/ /\ pendingRequests[u] = 0
                       /\ requests[pendingRequests'[u]].st = "unused"
                       /\ requests'[pendingRequests'[u]].st = "pending"
                    \/ /\ pendingRequests'[u] = 0
                       /\ requests[pendingRequests[u]].st = "pending"
                       /\ requests'[pendingRequests[u]].st = "settled"]_vars

\* two requests with different keys are in flight together, each awaited by
\* the widget of its key
C37_Witness ==
    \E n, m \in ReqIds :
        /\ requests[n].st = "pending" /\ requests[n].url = "api"
        /\ requests[m].st = "pending" /\ requests[m].url = "other"
        /\ WaitersOf(n) = {1}
        /\ WaitersOf(m) = {OtherInst}
        /\ pendingRequests["api"] = n
        /\ pendingRequests["other"] = m

\* C38: within an invocation every fetch of the player comes right after
\* a fetch of the token service that was answered ok; an invocation that
\* ends on a call of the token service ends on a failed one, with no fetch
\* of the player after it.
C38_TokenBeforePlayback ==
    \A h \in Handlers :
        /\ \A k \in DOMAIN calls[h] :
               calls[h][k].to = "playback"
               => /\ k > 1
                  /\ calls[h][k - 1].to = "token"
                  /\ calls[h][k - 1].answered
                  /\ ~calls[h][k - 1].answer.rejected
                  /\ ok(calls[h][k - 1].answer)
        /\ Finished(h) /\ calls[h] # <<>> /\ LastCall(h).to = "token"
           => LastCall(h).answer.rejected \/ ~ok(LastCall(h).answer)

\* the player is fetched a second time, after a second refresh of the token
C38_Witness ==
    \E h \in Handlers :
        /\ Len(calls[h]) >= 4
        /\ calls[h][2].to = "playback"
        /\ calls[h][3].to = "token"
        /\ calls[h][4].to = "playback"

\* C39: the retries of getAccessToken and getNowPlaying are bounded, and an
\* invocation whose upstream calls all return ends with a response sent:
\* no failure leaves the handler uncaught.
C39_InvocationTerminates ==
    /\ [](\A h \in Handlers : /\ tokenRetryCount[h] <= maxRetries
                              /\ playRetryCount[h] <= maxRetries
                              /\ Len(calls[h]) <= (maxRetries + 1) * (maxRetries + 2)
                              /\ Finished(h) => res[h].status # 0)
    /\ (hpc[1].at # "idle") ~> (Finished(1) /\ res[1].status # 0)

\* the invocation ended after every retry of the player and of the token
\* service was used up
C39_Witness ==
    /\ Finished(1)
    /\ playRetryCount[1] = maxRetries
    /\ tokenRetryCount[1] = maxRetries
    /\ res[1].status = 500


====
